---- MODULE Spec2Model ----
(***************************************************************************)
(* Verification model of the DB_AI sidecar: the /query handler of main.py, *)
(* the QueryCache of core/cache.py, the SQLExecutor of                     *)
(* core/sql_executor.py and the router VannaAI.generate_sql of             *)
(* core/vanna_setup.py.                                                    *)
(*                                                                         *)
(* Python strings are modelled as sequences of one-character strings, so   *)
(* that strip(), lower(), upper(), startswith(), the `in` operator and the *)
(* regular expressions of the code are computed character by character.    *)
(***************************************************************************)
EXTENDS Integers, Sequences, FiniteSets, TLC

VARIABLES
    cache,      \* QueryCache.cache: normalized question -> SQL string
    last,       \* what the most recent /query or /clear-cache request did
    calls,      \* the most recent direct calls of the QueryCache interface
    cacheFile,  \* the persisted query_cache.json
    vanna_ai,   \* main.vanna_ai: None or the VannaAI object
    model_init_error, \* main.model_init_error
    execIn,     \* arguments of the SQLExecutor.execute call under study
    execOut,    \* what that call did
    store,      \* the process that owns the QueryCache, while _save is followed step by step
    inflight,   \* the /query requests the event loop has accepted and not yet answered
    route,      \* a question given to generate_sql and the rule that answered it
    dateq,      \* a question given to get_date_filter, the clock, and the predicate returned
    ledger,     \* the invoices and customer_payments tables read by a rule template
    dl          \* the model download: its status file, the model file and its threads

\* the variables of the studies of _save, of the event loop, of the router, of
\* get_date_filter, of the rule templates' statements and of the model download
studyVars == <<store, inflight, route, dateq, ledger, dl>>

vars == <<cache, cacheFile, vanna_ai, model_init_error, last, calls, execIn, execOut,
          studyVars>>

----------------------------------------------------------------------------
(* Python str primitives over character sequences.                         *)

LowerLetters == <<"a","b","c","d","e","f","g","h","i","j","k","l","m",
                  "n","o","p","q","r","s","t","u","v","w","x","y","z">>
UpperLetters == <<"A","B","C","D","E","F","G","H","I","J","K","L","M",
                  "N","O","P","Q","R","S","T","U","V","W","X","Y","Z">>
DigitChars == <<"0","1","2","3","4","5","6","7","8","9">>

Range(f) == {f[i] : i \in DOMAIN f}

\* str.upper() / str.lower() on one character
UpperTable == [c \in Range(LowerLetters) |->
                  UpperLetters[CHOOSE i \in DOMAIN LowerLetters : LowerLetters[i] = c]]
LowerTable == [c \in Range(UpperLetters) |->
                  LowerLetters[CHOOSE i \in DOMAIN UpperLetters : UpperLetters[i] = c]]

UpperCh(c) == IF c \in DOMAIN UpperTable THEN UpperTable[c] ELSE c
LowerCh(c) == IF c \in DOMAIN LowerTable THEN LowerTable[c] ELSE c

Upper(s) == [i \in 1..Len(s) |-> UpperCh(s[i])]
Lower(s) == [i \in 1..Len(s) |-> LowerCh(s[i])]

\* the characters str.strip() and str.split() treat as whitespace
SpaceChars == {" ", "\t", "\n", "\r"}
IsSpaceCh(c) == c \in SpaceChars

\* the characters the regex class \w matches
WordChars ==
    Range(LowerLetters) \cup Range(UpperLetters) \cup Range(DigitChars) \cup {"_"}
IsWordCh(c) == c \in WordChars

\* index of the first character at or after i that is not whitespace
RECURSIVE SkipSpaces(_, _)
SkipSpaces(s, i) ==
    IF i > Len(s) \/ ~IsSpaceCh(s[i]) THEN i ELSE SkipSpaces(s, i + 1)

\* index of the last character at or before i that is not whitespace
RECURSIVE SkipSpacesBack(_, _)
SkipSpacesBack(s, i) ==
    IF i < 1 \/ ~IsSpaceCh(s[i]) THEN i ELSE SkipSpacesBack(s, i - 1)

\* str.strip()
Strip(s) == SubSeq(s, SkipSpaces(s, 1), SkipSpacesBack(s, Len(s)))

RECURSIVE SkipCharBack(_, _, _)
SkipCharBack(s, c, i) ==
    IF i < 1 \/ s[i] # c THEN i ELSE SkipCharBack(s, c, i - 1)

\* str.rstrip(c)
RStripCh(s, c) == SubSeq(s, 1, SkipCharBack(s, c, Len(s)))

\* s.startswith(p)
StartsWith(s, p) == Len(s) >= Len(p) /\ SubSeq(s, 1, Len(p)) = p

\* p in s
Contains(s, p) ==
    \/ p = <<>>
    \/ \E i \in 1..(Len(s) - Len(p) + 1) :
          s[i] = p[1] /\ SubSeq(s, i, i + Len(p) - 1) = p

\* str(n) for a natural number n
RECURSIVE Dec(_)
Dec(n) == IF n < 10 THEN <<DigitChars[n + 1]>>
          ELSE Dec(n \div 10) \o <<DigitChars[(n % 10) + 1]>>

Min(a, b) == IF a <= b THEN a ELSE b

----------------------------------------------------------------------------
(* core/sql_executor.py                                                    *)

BLOCKED_KEYWORDS == <<
    <<"I","N","S","E","R","T">>, <<"U","P","D","A","T","E">>, <<"D","E","L","E","T","E">>, <<"D","R","O","P">>, <<"A","L","T","E","R">>,
    <<"T","R","U","N","C","A","T","E">>, <<"R","E","P","L","A","C","E">>, <<"G","R","A","N","T">>, <<"R","E","V","O","K","E">>, <<"A","T","T","A","C","H">>, <<"D","E","T","A","C","H">> >>

\* the regex assertion \b at the gap before position i of s (1 <= i <= Len(s)+1)
WordBoundaryAt(s, i) ==
    LET before == i > 1 /\ IsWordCh(s[i - 1])
        after  == i <= Len(s) /\ IsWordCh(s[i])
    IN  before # after

\* the gaps of s at which \b holds
WordBoundaries(s) == {i \in 1..(Len(s) + 1) : WordBoundaryAt(s, i)}

\* the pattern as it would match when compiled without re.IGNORECASE
KeywordAtCaseSensitive(kw, sql, i) == SubSeq(sql, i, i + Len(kw) - 1) = kw

\* the letters of kw, in any case, stand at positions i .. i+Len(kw)-1 of sql
KeywordAt(kw, sql, i) == Upper(SubSeq(sql, i, i + Len(kw) - 1)) = kw

\* a substring test in place of \b...\b
BlockedPatternSearchSubstring(kw, sql, bounds) ==
    \E i \in 1..(Len(sql) - Len(kw) + 1) : KeywordAt(kw, sql, i)

\* re.compile(rf'\b{kw}\b', re.IGNORECASE).search(sql); bounds = WordBoundaries(sql)
BlockedPatternSearch(kw, sql, bounds) ==
    \E i \in bounds : (i + Len(kw)) \in bounds /\ KeywordAt(kw, sql, i)

\* the checks of _is_safe_query on a non-blank statement; sql_upper is
\* sql.upper().strip() and bounds the word boundaries of sql
SafeStatement(sql, sql_upper, bounds) ==
    IF ~(StartsWith(sql_upper, <<"S","E","L","E","C","T">>) \/ StartsWith(sql_upper, <<"W","I","T","H">>))
    THEN FALSE
    ELSE ~\E k \in DOMAIN BLOCKED_KEYWORDS :
             BlockedPatternSearch(BLOCKED_KEYWORDS[k], sql, bounds)

\* SQLExecutor._is_safe_query
IsSafeQuery(sql) ==
    IF sql = <<>> \/ Strip(sql) = <<>> THEN FALSE
    ELSE SafeStatement(sql, Strip(Upper(sql)), WordBoundaries(sql))

\* default of the parameter `limit` of SQLExecutor.execute
DefaultLimit == 100

\* the statement execute hands to sqlite: LIMIT is appended when the upper-cased
\* text does not contain "LIMIT"
WithLimit(sql, limit) ==
    IF ~Contains(Upper(sql), <<"L","I","M","I","T">>)
    THEN RStripCh(sql, ";") \o <<" ","L","I","M","I","T"," ">> \o Dec(limit)
    ELSE sql

\* The database as execute sees it: conn.execute either raises or yields rows.
\* db.fail: sqlite rejects the statement; db.avail: the number of rows the
\* statement passed to execute selects before any cap execute adds.
NoResult == [raised |-> FALSE, error |-> "none", connected |-> FALSE,
             stmt |-> <<>>, nrows |-> 0]

\* SQLExecutor.execute after the safety check has answered `safe`; stmt is the
\* statement handed to sqlite
ExecuteChecked(safe, sql, stmt, limit, db) ==
    IF ~safe
    THEN [raised |-> TRUE, error |-> "ValueError", connected |-> FALSE,
          stmt |-> <<>>, nrows |-> 0]
    ELSE IF db.fail
         THEN [raised |-> TRUE, error |-> "sqlite3.Error", connected |-> TRUE,
               stmt |-> stmt, nrows |-> 0]
         ELSE [raised |-> FALSE, error |-> "none", connected |-> TRUE,
               stmt |-> stmt,
               nrows |-> IF stmt # sql THEN Min(db.avail, limit) ELSE db.avail]

\* SQLExecutor.execute
Execute(sql, limit, db) ==
    ExecuteChecked(IsSafeQuery(sql), sql, WithLimit(sql, limit), limit, db)

----------------------------------------------------------------------------
(* core/cache.py                                                           *)

\* Python's None, a value no string equals
None == <<"<None>">>

\* the truth value Python gives a str-or-None
Truthy(v) == v # None /\ v # <<>>

EmptyMap == [k \in {} |-> <<>>]

\* QueryCache._normalize
Normalize(text) == Lower(Strip(text))

\* a lookup that never finds an entry
CacheGetMisses(c, question) == None

\* QueryCache.get
CacheGet(c, question) ==
    LET key == Normalize(question)
    IN  IF key \in DOMAIN c THEN c[key] ELSE None

\* QueryCache.set writes and saves only when the key is new or its value changes
CacheSetWrites(c, question, sql) ==
    LET key == Normalize(question)
    IN  key \notin DOMAIN c \/ c[key] # sql

\* a set that keeps the value an existing key already has
CacheSetKeepsExisting(c, question, sql) ==
    LET key == Normalize(question)
    IN  IF key \notin DOMAIN c
        THEN [k \in DOMAIN c \cup {key} |-> IF k = key THEN sql ELSE c[k]]
        ELSE c

\* QueryCache.set, the in-memory map after the call
CacheSet(c, question, sql) ==
    LET key == Normalize(question)
    IN  IF key \notin DOMAIN c \/ c[key] # sql
        THEN [k \in DOMAIN c \cup {key} |-> IF k = key THEN sql ELSE c[k]]
        ELSE c

\* QueryCache.clear, the in-memory map after the call
CacheClear(c) == EmptyMap

\* The persisted file: absent, holding a JSON map, or cut short by a failed write
NoFile == [state |-> "absent", map |-> EmptyMap]

\* QueryCache._save: open(...,'w') truncates the file and json.dump writes the
\* whole map; any exception is logged and swallowed.
\*   outcome "ok": the file holds the map;
\*   "write_failed": the file was truncated and the dump did not complete.
SaveOutcomes == {"ok", "write_failed"}

Save(c, file, outcome) ==
    CASE outcome = "ok"           -> [state |-> "ok", map |-> c]
      [] outcome = "write_failed" -> [state |-> "corrupt", map |-> EmptyMap]

----------------------------------------------------------------------------
(* core/vanna_setup.py: LlamaCppLLM.generate and VannaAI.generate_sql      *)

\* the backquote character U+0060 is written "GRAVE": a TLA+ string cannot hold it
Fence == <<"GRAVE","GRAVE","GRAVE">>

DropFirst(s, n) == SubSeq(s, n + 1, Len(s))
EndsWith(s, p) == Len(s) >= Len(p) /\ SubSeq(s, Len(s) - Len(p) + 1, Len(s)) = p

\* index of the first occurrence of p in s at or after i, 0 when there is none
RECURSIVE FindFrom(_, _, _)
FindFrom(s, p, i) ==
    IF i + Len(p) - 1 > Len(s) THEN 0
    ELSE IF SubSeq(s, i, i + Len(p) - 1) = p THEN i
    ELSE FindFrom(s, p, i + 1)

Find(s, p) == FindFrom(s, p, 1)

\* s.split(sep)
RECURSIVE Split(_, _)
Split(s, sep) ==
    LET i == Find(s, sep)
    IN  IF i = 0 THEN <<s>>
        ELSE <<SubSeq(s, 1, i - 1)>> \o Split(DropFirst(s, i + Len(sep) - 1), sep)

\* sep.join(parts)
RECURSIVE Join(_, _)
Join(parts, sep) ==
    IF parts = <<>> THEN <<>>
    ELSE IF Len(parts) = 1 THEN parts[1]
    ELSE parts[1] \o sep \o Join(Tail(parts), sep)

\* ' '.join(s.split()): whitespace runs collapsed to one space, ends trimmed
RECURSIVE CollapseFrom(_, _)
CollapseFrom(s, i) ==
    IF i > Len(s) THEN <<>>
    ELSE IF IsSpaceCh(s[i])
         THEN LET j == SkipSpaces(s, i)
              IN  IF j > Len(s) THEN <<>> ELSE <<" ">> \o CollapseFrom(s, j)
         ELSE <<s[i]>> \o CollapseFrom(s, i + 1)

CollapseSpaces(s) == CollapseFrom(s, SkipSpaces(s, 1))

\* re.sub(r'[!?.,]', '', s)
RemovePunctuation(s) == SelectSeq(s, LAMBDA c : c \notin {"!", "?", ".", ","})

\* The text LlamaCppLLM.generate returns for the model's message content
LlamaGenerate(content) ==
    LET r0 == Strip(content)
        r1 == IF StartsWith(r0, Fence \o <<"s","q","l">>) THEN DropFirst(r0, 6) ELSE r0
        r2 == IF StartsWith(r1, Fence) THEN DropFirst(r1, 3) ELSE r1
        r3 == IF EndsWith(r2, Fence) THEN SubSeq(r2, 1, Len(r2) - 3) ELSE r2
    IN  Strip(r3)

\* removal of a leading "SQL:" label
StripSqlLabel(sql) ==
    IF StartsWith(Lower(sql), <<"s","q","l",":">>) THEN Strip(DropFirst(sql, 4)) ELSE sql

\* sql.split("```")[1] with a leading "sql" tag removed, stripped
FencePart(sql) ==
    LET s == Split(sql, Fence)[2]
    IN  Strip(IF StartsWith(Lower(s), <<"s","q","l">>) THEN DropFirst(s, 3) ELSE s)

\* the cleanup of the two bypass paths of generate_sql
BypassCleanup(text) ==
    LET s0 == Strip(text)
        s1 == IF Contains(s0, Fence) THEN FencePart(s0) ELSE s0
    IN  StripSqlLabel(s1)

\* the lines of a fenced answer that lie inside a code block
RECURSIVE CodeBlockLines(_, _)
CodeBlockLines(lines, in_code_block) ==
    IF lines = <<>> THEN <<>>
    ELSE IF Contains(Head(lines), Fence)
         THEN CodeBlockLines(Tail(lines), ~in_code_block)
         ELSE (IF in_code_block THEN <<Head(lines)>> ELSE <<>>)
              \o CodeBlockLines(Tail(lines), in_code_block)

\* the cleanup at the end of generate_sql
DefaultCleanup(text) ==
    LET s0 == Strip(text)
        new_lines == CodeBlockLines(Split(s0, <<"\n">>), FALSE)
        s1 == IF Contains(s0, Fence)
              THEN IF new_lines # <<>> THEN Join(new_lines, <<"\n">>)
                   ELSE FencePart(s0)
              ELSE s0
    IN  Strip(StripSqlLabel(s1))

greeting_patterns == {<<"h","i">>, <<"h","e","l","l","o">>, <<"h","e","y">>, <<"g","o","o","d"," ","m","o","r","n","i","n","g">>, <<"g","o","o","d"," ","a","f","t","e","r","n","o","o","n">>,
                      <<"g","o","o","d"," ","e","v","e","n","i","n","g">>, <<"h","o","w","d","y">>, <<"h","o","l","a">>}
identity_patterns == {<<"w","h","o"," ","a","r","e"," ","y","o","u">>, <<"w","h","a","t"," ","a","r","e"," ","y","o","u">>, <<"w","h","o"," ","i","s"," ","t","h","i","s">>, <<"w","h","a","t"," ","i","s"," ","t","h","i","s">>,
                      <<"i","n","t","r","o","d","u","c","e"," ","y","o","u","r","s","e","l","f">>, <<"t","e","l","l"," ","m","e"," ","a","b","o","u","t"," ","y","o","u","r","s","e","l","f">>}
farewell_patterns == {<<"t","h","a","n","k"," ","y","o","u">>, <<"t","h","a","n","k","s">>, <<"b","y","e">>, <<"g","o","o","d","b","y","e">>, <<"s","e","e"," ","y","o","u">>, <<"t","a","k","e"," ","c","a","r","e">>}
help_patterns == {<<"h","e","l","p">>, <<"w","h","a","t"," ","c","a","n"," ","y","o","u"," ","d","o">>, <<"h","o","w"," ","t","o"," ","u","s","e">>, <<"c","o","m","m","a","n","d","s">>, <<"f","e","a","t","u","r","e","s">>}

GreetingReply ==
    <<
    "C","O","N","V","E","R","S","A","T","I","O","N","A","L",":","H","e","l","l","o",
    "!"," ","H","o","w"," ","c","a","n"," ","I"," ","h","e","l","p"," ","y","o","u",
    " ","t","o","d","a","y","?"," ","Y","o","u"," ","c","a","n"," ","a","s","k"," ",
    "m","e"," ","a","b","o","u","t"," ","p","r","o","d","u","c","t","s",","," ","c",
    "u","s","t","o","m","e","r","s",","," ","s","u","p","p","l","i","e","r","s",",",
    " ","i","n","v","o","i","c","e","s",","," ","o","r"," ","s","a","l","e","s"," ",
    "a","n","a","l","y","t","i","c","s","." >>

FarewellReply ==
    <<
    "C","O","N","V","E","R","S","A","T","I","O","N","A","L",":","Y","o","u","'","r",
    "e"," ","w","e","l","c","o","m","e","!"," ","F","e","e","l"," ","f","r","e","e",
    " ","t","o"," ","a","s","k"," ","i","f"," ","y","o","u"," ","n","e","e","d"," ",
    "a","n","y","t","h","i","n","g"," ","e","l","s","e","."," ","H","a","v","e"," ",
    "a"," ","g","r","e","a","t"," ","d","a","y","!" >>

\* first line of the help text; the bullet list that follows it in the source is
\* not reproduced
HelpReply == <<"C","O","N","V","E","R","S","A","T","I","O","N","A","L",":","I"," ","c","a","n"," ","h","e","l","p"," ","y","o","u"," ","w","i","t","h",":">>

LowStockSql ==
    <<
    "S","E","L","E","C","T"," ","p",".","n","a","m","e"," ","A","S"," ","\"","P","R",
    "O","D","U","C","T"," ","N","A","M","E","\"",","," ","p",".","s","k","u"," ","A",
    "S"," ","\"","S","K","U","\"",","," ","p",".","s","t","o","c","k","_","q","u","a",
    "n","t","i","t","y"," ","A","S"," ","\"","C","U","R","R","E","N","T"," ","S","T",
    "O","C","K","\"",","," ","\n"," "," "," "," "," "," "," "," "," "," "," "," "," ",
    " "," "," ","p",".","p","r","i","c","e"," ","A","S"," ","\"","C","O","S","T"," ",
    "P","R","I","C","E","\"",","," ","s",".","n","a","m","e"," ","A","S"," ","\"","S",
    "U","P","P","L","I","E","R","\"","\n"," "," "," "," "," "," "," "," "," "," "," ",
    " "," "," "," "," ","F","R","O","M"," ","p","r","o","d","u","c","t","s"," ","p",
    " ","\n"," "," "," "," "," "," "," "," "," "," "," "," "," "," "," "," ","L","E",
    "F","T"," ","J","O","I","N"," ","s","u","p","p","l","i","e","r","s"," ","s"," ",
    "O","N"," ","p",".","s","u","p","p","l","i","e","r","_","i","d"," ","="," ","s",
    ".","i","d"," ","\n"," "," "," "," "," "," "," "," "," "," "," "," "," "," "," ",
    " ","W","H","E","R","E"," ","p",".","s","t","o","c","k","_","q","u","a","n","t",
    "i","t","y"," ","<"," ","1","0"," ","\n"," "," "," "," "," "," "," "," "," "," ",
    " "," "," "," "," "," ","O","R","D","E","R"," ","B","Y"," ","p",".","s","t","o",
    "c","k","_","q","u","a","n","t","i","t","y"," ","A","S","C" >>

OutOfStockSql ==
    <<
    "S","E","L","E","C","T"," ","p",".","n","a","m","e"," ","A","S"," ","\"","P","R",
    "O","D","U","C","T"," ","N","A","M","E","\"",","," ","p",".","s","k","u"," ","A",
    "S"," ","\"","S","K","U","\"",","," ","p",".","s","t","o","c","k","_","q","u","a",
    "n","t","i","t","y"," ","A","S"," ","\"","C","U","R","R","E","N","T"," ","S","T",
    "O","C","K","\"",","," ","\n"," "," "," "," "," "," "," "," "," "," "," "," "," ",
    " "," "," ","p",".","p","r","i","c","e"," ","A","S"," ","\"","C","O","S","T"," ",
    "P","R","I","C","E","\"",","," ","s",".","n","a","m","e"," ","A","S"," ","\"","S",
    "U","P","P","L","I","E","R","\"","\n"," "," "," "," "," "," "," "," "," "," "," ",
    " "," "," "," "," ","F","R","O","M"," ","p","r","o","d","u","c","t","s"," ","p",
    " ","\n"," "," "," "," "," "," "," "," "," "," "," "," "," "," "," "," ","L","E",
    "F","T"," ","J","O","I","N"," ","s","u","p","p","l","i","e","r","s"," ","s"," ",
    "O","N"," ","p",".","s","u","p","p","l","i","e","r","_","i","d"," ","="," ","s",
    ".","i","d"," ","\n"," "," "," "," "," "," "," "," "," "," "," "," "," "," "," ",
    " ","W","H","E","R","E"," ","p",".","s","t","o","c","k","_","q","u","a","n","t",
    "i","t","y"," ","="," ","0"," ","\n"," "," "," "," "," "," "," "," "," "," "," ",
    " "," "," "," "," ","O","R","D","E","R"," ","B","Y"," ","p",".","n","a","m","e",
    " ","A","S","C" >>

\* json.dumps(identity_data) for the company info read from app_settings
IdentityJson(info) ==
    <<"{","\"","t","y","p","e","\"",":"," ","\"","i","d","e","n","t","i","t","y","\"",","," ","\"","c","o","m","p","a","n","y","_","n","a","m","e","\"",":"," ","\"">> \o info.name
    \o <<"\"",","," ","\"","a","d","d","r","e","s","s","\"",":"," ","\"">> \o info.address
    \o <<"\"",","," ","\"","p","h","o","n","e","\"",":"," ","\"">> \o info.phone
    \o <<"\"",","," ","\"","e","m","a","i","l","\"",":"," ","\"">> \o info.email
    \o <<
    "\"",","," ","\"","m","e","s","s","a","g","e","\"",":"," ","\"","I","'","m"," ","t",
    "h","e"," ","A","I"," ","a","s","s","i","s","t","a","n","t"," ","f","o","r"," ",
    "*","*" >> \o info.name
    \o <<
    "*","*","."," ","I"," ","c","a","n"," ","h","e","l","p"," ","y","o","u"," ","w",
    "i","t","h"," ","i","n","v","e","n","t","o","r","y"," ","q","u","e","r","i","e",
    "s",","," ","c","u","s","t","o","m","e","r"," ","i","n","f","o","r","m","a","t",
    "i","o","n",","," ","s","a","l","e","s"," ","a","n","a","l","y","t","i","c","s",
    ","," ","a","n","d"," ","m","o","r","e",".","\"","}" >>

\* is_purchase_query without its test for a product in a customer context
IsPurchaseQueryVerbsOnly(ql) ==
    /\ ~Contains(ql, <<"s","o","l","d"," ","t","o"," ","c","u","s","t","o","m","e","r">>)
    /\ \/ Contains(ql, <<"b","o","u","g","h","t">>)
       \/ Contains(ql, <<"s","a","l","e","s"," ","w","i","t","h">>)
       \/ Contains(ql, <<"c","u","s","t","o","m","e","r","s"," ","f","o","r">>)
       \/ Contains(ql, <<"w","h","o"," ","p","u","r","c","h","a","s","e","d">>)
       \/ Contains(ql, <<"b","y"," ","c","u","s","t","o","m","e","r","s">>)
       \/ (Contains(ql, <<"k","i","s","s","e","s">>) /\ Contains(ql, <<"c","u","s","t","o","m","e","r">>))

\* is_purchase_query
IsPurchaseQuery(ql) ==
    /\ ~Contains(ql, <<"s","o","l","d"," ","t","o"," ","c","u","s","t","o","m","e","r">>)
    /\ \/ Contains(ql, <<"b","o","u","g","h","t">>)
       \/ Contains(ql, <<"s","a","l","e","s"," ","w","i","t","h">>)
       \/ Contains(ql, <<"c","u","s","t","o","m","e","r","s"," ","f","o","r">>)
       \/ Contains(ql, <<"w","h","o"," ","p","u","r","c","h","a","s","e","d">>)
       \/ Contains(ql, <<"b","y"," ","c","u","s","t","o","m","e","r","s">>)
       \/ (Contains(ql, <<"k","i","s","s","e","s">>) /\ Contains(ql, <<"c","u","s","t","o","m","e","r">>))
       \/ (Contains(ql, <<"p","r","o","d","u","c","t">>) /\ Contains(ql, <<"c","u","s","t","o","m","e","r">>) /\ ~Contains(ql, <<"s","o","l","d">>))

\* the guard of the pending-credit template
IsPendingCreditQuery(ql) ==
    \/ Contains(ql, <<"c","u","s","t","o","m","e","r","s"," ","w","i","t","h"," ","c","r","e","d","i","t">>)
    \/ Contains(ql, <<"c","u","s","t","o","m","e","r"," ","w","i","t","h"," ","c","r","e","d","i","t">>)
    \/ Contains(ql, <<"p","e","n","d","i","n","g"," ","c","r","e","d","i","t">>)
    \/ Contains(ql, <<"c","r","e","d","i","t"," ","p","e","n","d","i","n","g">>)

\* is_top_sold_query
IsTopSoldQuery(ql) ==
    \/ Contains(ql, <<"t","o","p"," ","s","o","l","d">>)
    \/ Contains(ql, <<"t","o","p"," ","s","e","l","l","i","n","g">>)
    \/ Contains(ql, <<"m","o","s","t"," ","s","o","l","d">>)
    \/ Contains(ql, <<"b","e","s","t"," ","s","e","l","l","e","r">>)
    \/ (Contains(ql, <<"t","o","p">>) /\ Contains(ql, <<"p","r","o","d","u","c","t","s">>))
    \/ (Contains(ql, <<"p","r","o","d","u","c","t">>) /\ Contains(ql, <<"s","o","l","d"," ","t","o"," ","c","u","s","t","o","m","e","r">>))
    \/ Contains(ql, <<"p","r","o","d","u","c","t","s"," ","s","o","l","d"," ","t","o"," ","c","u","s","t","o","m","e","r">>)
    \/ Contains(ql, <<"c","u","s","t","o","m","e","r"," ","w","i","s","e"," ","p","r","o","d","u","c","t">>)
    \/ Contains(ql, <<"p","r","o","d","u","c","t","s"," ","c","o","u","n","t"," ","b","y"," ","c","u","s","t","o","m","e","r">>)
    \/ Contains(ql, <<"c","u","s","t","o","m","e","r","s"," ","w","h","o"," ","b","o","u","g","h","t"," ","m","o","s","t">>)
    \/ Contains(ql, <<"t","o","p"," ","c","u","s","t","o","m","e","r","s"," ","b","y"," ","p","r","o","d","u","c","t">>)
    \/ Contains(ql, <<"p","r","o","d","u","c","t","s"," ","t","a","k","e","n"," ","b","y"," ","c","u","s","t","o","m","e","r">>)

\* Every customer, revenue, supplier and product template of generate_sql is
\* guarded by a test that needs one of these words in question_lower; a question
\* without any of them passes all those rules.
TemplateWords == {<<"c","u","s","t","o","m","e","r">>, <<"n","a","m","e"," ">>, <<"r","e","v","e","n","u","e">>, <<"s","a","l","e","s">>, <<"i","n","c","o","m","e">>, <<"s","u","p","p","l","i","e","r">>,
                  <<"p","r","o","d","u","c","t">>, <<" ","s","t","o","c","k">>, <<" ","d","a","t","a">>, <<" ","l","i","s","t">>, <<" ","i","n","f","o">>, <<" ","d","e","t","a","i","l","s">>,
                  <<" ","p","r","i","c","e">>, <<" ","p","r","o","f","i","t">>}

ReachesTemplateRules(ql) == \E w \in TemplateWords : Contains(ql, w)

PendingCreditSql ==
    <<
    "S","E","L","E","C","T"," ","c",".","n","a","m","e"," ","A","S"," ","\"","N","A",
    "M","E","\"",","," ","c",".","p","h","o","n","e"," ","A","S"," ","\"","C","O","N",
    "T","A","C","T"," ","I","N","F","O","\"",","," ","c",".","a","d","d","r","e","s",
    "s"," ","A","S"," ","\"","A","D","D","R","E","S","S","\"",","," ","c",".","e","m",
    "a","i","l"," ","A","S"," ","\"","E","M","A","I","L","\"",",","\n"," "," "," "," ",
    " "," "," "," "," "," "," "," "," "," "," "," ","C","O","A","L","E","S","C","E",
    "(","(","S","E","L","E","C","T"," ","S","U","M","(","c","r","e","d","i","t","_",
    "a","m","o","u","n","t",")"," ","F","R","O","M"," ","i","n","v","o","i","c","e",
    "s"," ","W","H","E","R","E"," ","c","u","s","t","o","m","e","r","_","i","d"," ",
    "="," ","c",".","i","d"," ","A","N","D"," ","(","c","r","e","d","i","t","_","a",
    "m","o","u","n","t"," ",">"," ","0"," ","O","R"," ","p","a","y","m","e","n","t",
    "_","m","e","t","h","o","d"," ","="," ","'","C","r","e","d","i","t","'",")",")",
    ","," ","0",")"," ","a","s"," ","\"","C","R","E","D","I","T"," ","G","I","V","E",
    "N","\"",",","\n"," "," "," "," "," "," "," "," "," "," "," "," "," "," "," "," ",
    "C","O","A","L","E","S","C","E","(","(","S","E","L","E","C","T"," ","S","U","M",
    "(","c","p",".","a","m","o","u","n","t",")"," ","F","R","O","M"," ","c","u","s",
    "t","o","m","e","r","_","p","a","y","m","e","n","t","s"," ","c","p"," ","J","O",
    "I","N"," ","i","n","v","o","i","c","e","s"," ","i","n","v"," ","O","N"," ","c",
    "p",".","i","n","v","o","i","c","e","_","i","d"," ","="," ","i","n","v",".","i",
    "d"," ","W","H","E","R","E"," ","c","p",".","c","u","s","t","o","m","e","r","_",
    "i","d"," ","="," ","c",".","i","d"," ","A","N","D"," ","(","i","n","v",".","c",
    "r","e","d","i","t","_","a","m","o","u","n","t"," ",">"," ","0"," ","O","R"," ",
    "i","n","v",".","p","a","y","m","e","n","t","_","m","e","t","h","o","d"," ","=",
    " ","'","C","r","e","d","i","t","'",")"," ","A","N","D"," ","(","c","p",".","n",
    "o","t","e"," ","I","S"," ","N","U","L","L"," ","O","R"," ","c","p",".","n","o",
    "t","e"," ","N","O","T"," ","L","I","K","E"," ","'","%","I","n","i","t","i","a",
    "l"," ","p","a","y","m","e","n","t","%","'",")",")",","," ","0",")"," ","a","s",
    " ","\"","C","R","E","D","I","T"," ","R","E","P","A","I","D","\"",",","\n"," "," ",
    " "," "," "," "," "," "," "," "," "," "," "," "," "," ","C","O","A","L","E","S",
    "C","E","(","(","S","E","L","E","C","T"," ","S","U","M","(","c","r","e","d","i",
    "t","_","a","m","o","u","n","t",")"," ","F","R","O","M"," ","i","n","v","o","i",
    "c","e","s"," ","W","H","E","R","E"," ","c","u","s","t","o","m","e","r","_","i",
    "d"," ","="," ","c",".","i","d"," ","A","N","D"," ","(","c","r","e","d","i","t",
    "_","a","m","o","u","n","t"," ",">"," ","0"," ","O","R"," ","p","a","y","m","e",
    "n","t","_","m","e","t","h","o","d"," ","="," ","'","C","r","e","d","i","t","'",
    ")",")",","," ","0",")"," ","-"," ","C","O","A","L","E","S","C","E","(","(","S",
    "E","L","E","C","T"," ","S","U","M","(","c","p",".","a","m","o","u","n","t",")",
    " ","F","R","O","M"," ","c","u","s","t","o","m","e","r","_","p","a","y","m","e",
    "n","t","s"," ","c","p"," ","J","O","I","N"," ","i","n","v","o","i","c","e","s",
    " ","i","n","v"," ","O","N"," ","c","p",".","i","n","v","o","i","c","e","_","i",
    "d"," ","="," ","i","n","v",".","i","d"," ","W","H","E","R","E"," ","c","p",".",
    "c","u","s","t","o","m","e","r","_","i","d"," ","="," ","c",".","i","d"," ","A",
    "N","D"," ","(","i","n","v",".","c","r","e","d","i","t","_","a","m","o","u","n",
    "t"," ",">"," ","0"," ","O","R"," ","i","n","v",".","p","a","y","m","e","n","t",
    "_","m","e","t","h","o","d"," ","="," ","'","C","r","e","d","i","t","'",")"," ",
    "A","N","D"," ","(","c","p",".","n","o","t","e"," ","I","S"," ","N","U","L","L",
    " ","O","R"," ","c","p",".","n","o","t","e"," ","N","O","T"," ","L","I","K","E",
    " ","'","%","I","n","i","t","i","a","l"," ","p","a","y","m","e","n","t","%","'",
    ")",")",","," ","0",")"," ","a","s"," ","\"","P","E","N","D","I","N","G"," ","C",
    "R","E","D","I","T","\"","\n"," "," "," "," "," "," "," "," "," "," "," "," "," ",
    " "," "," ","F","R","O","M"," ","c","u","s","t","o","m","e","r","s"," ","c","\n",
    " "," "," "," "," "," "," "," "," "," "," "," "," "," "," "," ","W","H","E","R",
    "E"," ","(","\n"," "," "," "," "," "," "," "," "," "," "," "," "," "," "," "," ",
    " "," "," "," ","C","O","A","L","E","S","C","E","(","(","S","E","L","E","C","T",
    " ","S","U","M","(","c","r","e","d","i","t","_","a","m","o","u","n","t",")"," ",
    "F","R","O","M"," ","i","n","v","o","i","c","e","s"," ","W","H","E","R","E"," ",
    "c","u","s","t","o","m","e","r","_","i","d"," ","="," ","c",".","i","d"," ","A",
    "N","D"," ","(","c","r","e","d","i","t","_","a","m","o","u","n","t"," ",">"," ",
    "0"," ","O","R"," ","p","a","y","m","e","n","t","_","m","e","t","h","o","d"," ",
    "="," ","'","C","r","e","d","i","t","'",")",")",","," ","0",")"," ","-"," ","\n",
    " "," "," "," "," "," "," "," "," "," "," "," "," "," "," "," "," "," "," "," ",
    "C","O","A","L","E","S","C","E","(","(","S","E","L","E","C","T"," ","S","U","M",
    "(","c","p",".","a","m","o","u","n","t",")"," ","F","R","O","M"," ","c","u","s",
    "t","o","m","e","r","_","p","a","y","m","e","n","t","s"," ","c","p"," ","J","O",
    "I","N"," ","i","n","v","o","i","c","e","s"," ","i","n","v"," ","O","N"," ","c",
    "p",".","i","n","v","o","i","c","e","_","i","d"," ","="," ","i","n","v",".","i",
    "d"," ","W","H","E","R","E"," ","c","p",".","c","u","s","t","o","m","e","r","_",
    "i","d"," ","="," ","c",".","i","d"," ","A","N","D"," ","(","i","n","v",".","c",
    "r","e","d","i","t","_","a","m","o","u","n","t"," ",">"," ","0"," ","O","R"," ",
    "i","n","v",".","p","a","y","m","e","n","t","_","m","e","t","h","o","d"," ","=",
    " ","'","C","r","e","d","i","t","'",")"," ","A","N","D"," ","(","c","p",".","n",
    "o","t","e"," ","I","S"," ","N","U","L","L"," ","O","R"," ","c","p",".","n","o",
    "t","e"," ","N","O","T"," ","L","I","K","E"," ","'","%","I","n","i","t","i","a",
    "l"," ","p","a","y","m","e","n","t","%","'",")",")",","," ","0",")","\n"," "," ",
    " "," "," "," "," "," "," "," "," "," "," "," "," "," ",")"," ",">"," ","0","\n",
    " "," "," "," "," "," "," "," "," "," "," "," "," "," "," "," ","O","R","D","E",
    "R"," ","B","Y"," ","\"","P","E","N","D","I","N","G"," ","C","R","E","D","I","T",
    "\""," ","D","E","S","C" >>

\* the bound of the help rule: len(q_clean) < 50
HelpMaxLen == 50

\* question_lower and q_clean of generate_sql
QuestionLower(question) == CollapseSpaces(Lower(question))
QClean(question) == Strip(RemovePunctuation(QuestionLower(question)))

\* the stock rules with the test for the out-of-stock phrases first
StockRuleOutOfStockFirst(ql) ==
    IF \/ Contains(ql, <<"o","u","t"," ","o","f"," ","s","t","o","c","k">>) \/ Contains(ql, <<"n","o"," ","s","t","o","c","k">>)
       \/ Contains(ql, <<"z","e","r","o"," ","s","t","o","c","k">>)
    THEN "out_of_stock"
    ELSE IF Contains(ql, <<"l","o","w"," ","s","t","o","c","k">>) \/ Contains(ql, <<"r","u","n","n","i","n","g"," ","l","o","w">>)
         THEN "low_stock"
         ELSE "none"

\* the low-stock and out-of-stock rules, in the order of the code
StockRule(ql) ==
    IF Contains(ql, <<"l","o","w"," ","s","t","o","c","k">>) \/ Contains(ql, <<"r","u","n","n","i","n","g"," ","l","o","w">>)
    THEN "low_stock"
    ELSE IF \/ Contains(ql, <<"o","u","t"," ","o","f"," ","s","t","o","c","k">>) \/ Contains(ql, <<"n","o"," ","s","t","o","c","k">>)
            \/ Contains(ql, <<"z","e","r","o"," ","s","t","o","c","k">>)
         THEN "out_of_stock"
         ELSE "none"

\* the rule that answers, given question_lower and q_clean
RuleFor(ql, qc) ==
    IF \/ qc \in greeting_patterns
       \/ \E g \in greeting_patterns : StartsWith(qc, g \o <<" ">>)
    THEN "greeting"
    ELSE IF \E p \in identity_patterns : Contains(qc, p) THEN "identity"
    ELSE IF \E p \in farewell_patterns : Contains(ql, p) THEN "farewell"
    ELSE IF (\E p \in help_patterns : Contains(qc, p)) /\ Len(qc) < HelpMaxLen
         THEN "help"
    ELSE IF StockRule(ql) # "none" THEN StockRule(ql)
    ELSE IF IsPurchaseQuery(ql) THEN "purchase_llm"
    ELSE IF IsPendingCreditQuery(ql) THEN "pending_credit"
    ELSE IF ReachesTemplateRules(ql) THEN "templates"
    ELSE IF IsTopSoldQuery(ql) THEN "top_sold_llm"
    ELSE "default_llm"

\* The rule of generate_sql that answers the question, in the order of the code
RuleOf(question) == RuleFor(QuestionLower(question), QClean(question))

\* outcome of self.llm.generate: it raises, or returns the cleaned content
LlmRules == {"purchase_llm", "top_sold_llm", "default_llm"}

\* a call of the model that answers a failure of the model with a template
CallLlmFallsBackToTemplate(rule, llm) ==
    IF llm.raises
    THEN [raised |-> FALSE, sql |-> OutOfStockSql, rule |-> rule, llmCalled |-> TRUE]
    ELSE [raised |-> FALSE, sql |-> DefaultCleanup(LlamaGenerate(llm.content)),
          rule |-> rule, llmCalled |-> TRUE]

\* self.llm.generate(prompt) and the cleanup of its answer in the rules that
\* call the model; an exception of generate leaves generate_sql
CallLlm(rule, llm) ==
    IF llm.raises
    THEN [raised |-> TRUE, sql |-> None, rule |-> rule, llmCalled |-> TRUE]
    ELSE [raised |-> FALSE,
          sql |-> IF rule = "default_llm"
                  THEN DefaultCleanup(LlamaGenerate(llm.content))
                  ELSE BypassCleanup(LlamaGenerate(llm.content)),
          rule |-> rule, llmCalled |-> TRUE]

\* the answer of generate_sql once its rule is known
GenerateByRule(rule, info, llm) ==
    CASE rule = "greeting" ->
            [raised |-> FALSE, sql |-> GreetingReply, rule |-> rule, llmCalled |-> FALSE]
      [] rule = "identity" ->
            [raised |-> FALSE, sql |-> <<"I","D","E","N","T","I","T","Y",":">> \o IdentityJson(info),
             rule |-> rule, llmCalled |-> FALSE]
      [] rule = "farewell" ->
            [raised |-> FALSE, sql |-> FarewellReply, rule |-> rule, llmCalled |-> FALSE]
      [] rule = "help" ->
            [raised |-> FALSE, sql |-> HelpReply, rule |-> rule, llmCalled |-> FALSE]
      [] rule = "low_stock" ->
            [raised |-> FALSE, sql |-> LowStockSql, rule |-> rule, llmCalled |-> FALSE]
      [] rule = "out_of_stock" ->
            [raised |-> FALSE, sql |-> OutOfStockSql, rule |-> rule, llmCalled |-> FALSE]
      [] rule = "pending_credit" ->
            [raised |-> FALSE, sql |-> PendingCreditSql, rule |-> rule,
             llmCalled |-> FALSE]
      [] rule \in LlmRules -> CallLlm(rule, llm)

\* VannaAI.generate_sql(question); info is what _get_company_info reads, llm the
\* behaviour of the model: [raises, content]
GenerateSql(question, info, llm) == GenerateByRule(RuleOf(question), info, llm)

----------------------------------------------------------------------------
(* main.py                                                                 *)

\* json.loads(text) yields a dict; of the texts of this model exactly the
\* json.dumps outputs do
JsonLoadsDict(text) == Len(text) >= 2 /\ text[1] = "{" /\ text[Len(text)] = "}"

\* initialize_model(): fileOk: MODEL_PATH exists with size > 0; ctorOk: the
\* VannaAI constructor returns instead of raising
InitializeModel(v, err, fileOk, ctorOk) ==
    IF fileOk
    THEN IF ctorOk
         THEN [vanna_ai |-> "VannaAI", error |-> "None", ret |-> TRUE]
         ELSE [vanna_ai |-> "None", error |-> "load error", ret |-> FALSE]
    ELSE [vanna_ai |-> v, error |-> "Model file not found or empty", ret |-> FALSE]

NoResp == [success |-> FALSE, sql |-> None, error |-> "none", results |-> "none",
           nrows |-> 0]
NoInit == [success |-> FALSE, ready |-> FALSE, error |-> "None"]

\* the record of one request: what the handler looked up, called and answered
Idle == [op |-> "startup", question |-> <<>>, status |-> 0, hit |-> FALSE,
         routed |-> FALSE, rule |-> "none", llmCalled |-> FALSE,
         llmRaises |-> FALSE, genRaised |-> FALSE, candidate |-> None,
         execCalls |-> 0,
         exec |-> NoResult, setCalled |-> FALSE, cacheBefore |-> EmptyMap,
         resp |-> NoResp, init |-> NoInit]

\* a call of the QueryCache interface: its arguments and what it returned
NoCall == [op |-> "none", question |-> <<>>, sql |-> None, held |-> None,
           ret |-> None]

\* the model when it is not called
NoLlm == [raises |-> FALSE, content |-> <<>>]

NoGen == [raised |-> FALSE, sql |-> None, rule |-> "none", llmCalled |-> FALSE]

----------------------------------------------------------------------------
(* Inputs of the model                                                     *)

\* rows a statement can select in the modelled database
MaxRows == 2

\* number of fragments a statement under test is assembled from
MaxPieces == 3

DbOutcomes ==
    {[fail |-> TRUE, avail |-> 0]} \cup {[fail |-> FALSE, avail |-> n] : n \in 0..MaxRows}

CompanyInfos ==
    {[name |-> <<"I","n","v","e","n","t","o","r","y"," ","M","a","n","a","g","e","m","e","n","t"," ","S","y","s","t","e","m">>, address |-> <<>>, phone |-> <<>>,
      email |-> <<>>],
     [name |-> <<"A","c","m","e">>, address |-> <<"K","u","r","n","o","o","l">>, phone |-> <<"9","0","0","0","0","0","0","0","0","0">>,
      email |-> <<"a","@","b",".","i","n">>]}

\* message contents the language model may answer with
LlmContents ==
    {<<"S","E","L","E","C","T"," ","n","a","m","e"," ","F","R","O","M"," ","p","r","o","d","u","c","t","s">>,
     <<"H","e","r","e",":","\n","GRAVE","GRAVE","GRAVE","s","q","l","\n","S","E","L","E","C","T"," ","1","\n","GRAVE","GRAVE","GRAVE">>,
     <<"S","Q","L",":"," ","S","E","L","E","C","T"," ","1">>,
     <<"D","E","L","E","T","E"," ","F","R","O","M"," ","p","r","o","d","u","c","t","s">>,
     <<"S","E","L","E","C","T"," ","1"," ","W","H","E","R","E"," ","[","D","A","T","E","_","C","O","N","D","I","T","I","O","N","]">>,
     <<"C","O","N","V","E","R","S","A","T","I","O","N","A","L",":","I"," ","c","a","n","n","o","t"," ","a","n","s","w","e","r"," ","t","h","a","t">>,
     <<"I","D","E","N","T","I","T","Y",":","a","s","s","i","s","t","a","n","t">>,
     <<>>}

LlmOutcomes ==
    {[raises |-> TRUE, content |-> <<>>]}
    \cup {[raises |-> FALSE, content |-> c] : c \in LlmContents}

CandidateQuestions ==
    {<<"h","i">>, <<"H","i","!">>, <<"w","h","o"," ","a","r","e"," ","y","o","u">>, <<"t","h","a","n","k","s">>, <<"h","e","l","p">>,
     <<"l","o","w"," ","s","t","o","c","k">>, <<"k","i","s","s","e","s"," ","b","o","u","g","h","t"," ","b","y"," ","c","u","s","t","o","m","e","r">>, <<"s","h","o","w"," ","i","t","e","m","s">>}

\* what generate_sql reads for the question: the company settings only in the
\* identity rule, the language model only in the rules that call it
InfosRead(q) ==
    IF RuleOf(q) = "identity" THEN CompanyInfos
    ELSE {[name |-> <<"I","n","v","e","n","t","o","r","y"," ","M","a","n","a","g","e","m","e","n","t"," ","S","y","s","t","e","m">>, address |-> <<>>,
           phone |-> <<>>, email |-> <<>>]}

LlmUsed(q) ==
    IF RuleOf(q) \in LlmRules THEN LlmOutcomes
    ELSE {NoLlm}

\* the questions asked: those generate_sql answers by a rule modelled above
Questions == {q \in CandidateQuestions : RuleOf(q) # "templates"}

\* fragments of the statements given to SQLExecutor.execute
Pieces ==
    {<<"S","E","L","E","C","T">>, <<"w","i","t","h">>, <<" ">>, <<";">>, <<"x">>, <<"U","P","D","A","T","E">>, <<"d","e","l","e","t","e">>,
     <<"u","p","d","a","t","e","d","_","a","t">>, <<"l","i","m","i","t">>, <<"L","i","m","i","t","e","d">>}

RECURSIVE Concat(_)
Concat(parts) == IF parts = <<>> THEN <<>> ELSE Head(parts) \o Concat(Tail(parts))

SqlInputs == {Concat(p) : p \in UNION {[1..n -> Pieces] : n \in 0..MaxPieces}}

Limits == {1, DefaultLimit}

\* questions and values given to the QueryCache interface
CacheQuestions ==
    {<<"l","o","w"," ","s","t","o","c","k">>, <<"L","o","w"," ","S","t","o","c","k">>, <<" ","l","o","w"," ","s","t","o","c","k"," ">>, <<"l","o","w"," "," ","s","t","o","c","k">>, <<"l","o","w"," ","s","t","o","c","k","?">>}

CacheSqls == {<<"S","E","L","E","C","T"," ","1">>, <<>>}

----------------------------------------------------------------------------
(* The service: requests handled one at a time by the event loop           *)

\* the values of the study variables while they are not in use
NoStore == [pc |-> "unused", op |-> "none"]
NoRoute == [question |-> <<>>, done |-> FALSE, rule |-> "none", sql |-> None]
NoDate ==
    [question |-> <<>>, now |-> [day |-> 1, min |-> 0], year |-> 1, done |-> FALSE,
     filter |-> <<>>]
NoLedger == [invoices |-> <<>>, payments |-> <<>>, done |-> FALSE, returned |-> {}]
NoDl == [pc |-> "unused"]

StudiesIdle ==
    /\ store = NoStore
    /\ inflight = <<>>
    /\ route = NoRoute
    /\ dateq = NoDate
    /\ ledger = NoLedger
    /\ dl = NoDl

InitService ==
    /\ StudiesIdle
    /\ cache = EmptyMap
    /\ cacheFile = NoFile
    /\ \E fileOk \in BOOLEAN, ctorOk \in BOOLEAN :
          LET r == InitializeModel("None", "None", fileOk, ctorOk)
          IN  vanna_ai = r.vanna_ai /\ model_init_error = r.error
    /\ last = Idle
    /\ calls = [write |-> NoCall, read |-> NoCall]
    /\ execIn = [sql |-> <<>>, limit |-> DefaultLimit]
    /\ execOut = [called |-> FALSE, avail |-> 0, res |-> NoResult]

\* POST /query while vanna_ai is None: HTTP 503
QueryUnavailable(q) ==
    /\ vanna_ai = "None"
    /\ last' = [Idle EXCEPT !.op = "query", !.question = q, !.status = 503,
                            !.cacheBefore = cache]
    /\ UNCHANGED <<cache, cacheFile, vanna_ai, model_init_error, calls, execIn, execOut, studyVars>>

\* a check of the sentinels that lets every candidate through
IsSentinelNever(sql, prefix) == FALSE

\* sql.startswith("CONVERSATIONAL:"), sql.startswith("IDENTITY:")
IsSentinel(sql, prefix) == StartsWith(sql, prefix)

\* a write condition that ignores the date placeholder
ShouldCacheIgnoringPlaceholder(cached_sql, sql) ==
    ~Truthy(cached_sql) /\ ~StartsWith(sql, <<"C","O","N","V","E","R","S","A","T","I","O","N","A","L",":">>)

\* a write condition that ignores where the candidate came from
ShouldCacheOnHit(cached_sql, sql) ==
    ~StartsWith(sql, <<"C","O","N","V","E","R","S","A","T","I","O","N","A","L",":">>) /\ ~Contains(sql, <<"[","D","A","T","E","_","C","O","N","D","I","T","I","O","N","]">>)

\* the condition of the cache write after a successful execution
ShouldCache(cached_sql, sql) ==
    /\ ~Truthy(cached_sql)
    /\ ~StartsWith(sql, <<"C","O","N","V","E","R","S","A","T","I","O","N","A","L",":">>)
    /\ ~Contains(sql, <<"[","D","A","T","E","_","C","O","N","D","I","T","I","O","N","]">>)

\* a failure response that leaves the statement out
ExecutionFailedWithoutSql(sql) ==
    [success |-> FALSE, sql |-> <<>>, error |-> "SQL execution failed",
     results |-> "none", nrows |-> 0]

\* the response of the handler when execute raised
ExecutionFailed(sql) ==
    [success |-> FALSE, sql |-> sql, error |-> "SQL execution failed",
     results |-> "none", nrows |-> 0]

\* the /query handler from "SQL Execution" on; safe: the verdict of
\* _is_safe_query on sql, stmt: the statement execute hands to sqlite
ExecuteAndReply(base, q, cached_sql, sql, safe, stmt) ==
    \E db \in DbOutcomes :
        LET r == ExecuteChecked(safe, sql, stmt, DefaultLimit, db)
        IN  IF r.raised
            THEN /\ last' = [base EXCEPT !.execCalls = 1, !.exec = r,
                                !.resp = ExecutionFailed(sql)]
                 /\ UNCHANGED <<cache, cacheFile>>
            ELSE LET doSet == ShouldCache(cached_sql, sql)
                 IN  /\ last' = [base EXCEPT !.execCalls = 1, !.exec = r,
                                    !.setCalled = doSet,
                                    !.resp = [success |-> TRUE, sql |-> sql,
                                              error |-> "none", results |-> "rows",
                                              nrows |-> r.nrows]]
                     /\ IF doSet
                        THEN /\ cache' = CacheSet(cache, q, sql)
                             /\ IF CacheSetWrites(cache, q, sql)
                                THEN \E out \in SaveOutcomes :
                                        cacheFile' = Save(cache', cacheFile, out)
                                ELSE cacheFile' = cacheFile
                        ELSE UNCHANGED <<cache, cacheFile>>

\* the /query handler after the SQL candidate is known; base records the lookup
\* and the generation
Answer(base, q, cached_sql, sql) ==
    IF IsSentinel(sql, <<"C","O","N","V","E","R","S","A","T","I","O","N","A","L",":">>)
    THEN /\ last' = [base EXCEPT !.resp = [success |-> TRUE, sql |-> <<>>,
                        error |-> "none", results |-> "message", nrows |-> 1]]
         /\ UNCHANGED <<cache, cacheFile>>
    ELSE IF IsSentinel(sql, <<"I","D","E","N","T","I","T","Y",":">>)
    THEN /\ last' = [base EXCEPT !.resp = [success |-> TRUE, sql |-> <<>>,
                        error |-> "none",
                        results |-> IF JsonLoadsDict(DropFirst(sql, 9))
                                    THEN "identity" ELSE "message",
                        nrows |-> 1]]
         /\ UNCHANGED <<cache, cacheFile>>
    ELSE ExecuteAndReply(base, q, cached_sql, sql, IsSafeQuery(sql),
                         WithLimit(sql, DefaultLimit))

\* the record of a request that got its SQL candidate from the cache or from g
Lookup(q, cached_sql, sql, llm, g) ==
    [Idle EXCEPT !.llmRaises = llm.raises, !.op = "query", !.question = q, !.status = 200,
                 !.hit = Truthy(cached_sql), !.routed = ~Truthy(cached_sql),
                 !.rule = g.rule, !.llmCalled = g.llmCalled,
                 !.candidate = sql, !.cacheBefore = cache]

\* the /query handler on a cache miss, g being what generate_sql did
AnswerGenerated(q, cached_sql, llm, g) ==
    IF g.raised
    THEN /\ last' = [Idle EXCEPT !.op = "query", !.question = q,
                        !.status = 200, !.routed = TRUE,
                        !.rule = g.rule, !.llmCalled = g.llmCalled,
                        !.llmRaises = llm.raises, !.genRaised = TRUE, !.cacheBefore = cache,
                        !.resp = [success |-> FALSE, sql |-> <<>>,
                                  error |-> "SQL generation failed",
                                  results |-> "none", nrows |-> 0]]
         /\ UNCHANGED <<cache, cacheFile>>
    ELSE Answer(Lookup(q, cached_sql, g.sql, llm, g), q, cached_sql, g.sql)

\* the /query handler once the cache has answered cached_sql
AnswerLookup(q, cached_sql) ==
    IF Truthy(cached_sql)
    THEN Answer(Lookup(q, cached_sql, cached_sql, NoLlm, NoGen), q, cached_sql,
                cached_sql)
    ELSE \E info \in InfosRead(q), llm \in LlmUsed(q) :
            AnswerGenerated(q, cached_sql, llm, GenerateSql(q, info, llm))

\* POST /query
Query(q) ==
    /\ vanna_ai # "None"
    /\ AnswerLookup(q, CacheGet(cache, q))
    /\ UNCHANGED <<vanna_ai, model_init_error, calls, execIn, execOut, studyVars>>

\* POST /clear-cache
ClearCache ==
    /\ cache' = CacheClear(cache)
    /\ \E out \in SaveOutcomes : cacheFile' = Save(cache', cacheFile, out)
    /\ last' = [Idle EXCEPT !.op = "clear", !.status = 200, !.cacheBefore = cache]
    /\ UNCHANGED <<vanna_ai, model_init_error, calls, execIn, execOut, studyVars>>

\* POST /initialize
TriggerInitialization ==
    /\ \E fileOk \in BOOLEAN, ctorOk \in BOOLEAN :
          LET r == InitializeModel(vanna_ai, model_init_error, fileOk, ctorOk)
          IN  /\ vanna_ai' = r.vanna_ai
              /\ model_init_error' = r.error
              /\ last' = [Idle EXCEPT !.op = "initialize", !.status = 200,
                             !.cacheBefore = cache,
                             !.init = [success |-> r.ret,
                                       ready |-> r.vanna_ai # "None",
                                       error |-> r.error]]
    /\ UNCHANGED <<cache, cacheFile, calls, execIn, execOut, studyVars>>

Next ==
    \/ \E q \in Questions : QueryUnavailable(q)
    \/ \E q \in Questions : Query(q)
    \/ ClearCache
    \/ TriggerInitialization

Spec == InitService /\ [][Next]_vars

----------------------------------------------------------------------------
(* SQLExecutor.execute on its own, over the assembled statements           *)

InitExec ==
    /\ StudiesIdle
    /\ cache = EmptyMap
    /\ cacheFile = NoFile
    /\ vanna_ai = "None"
    /\ model_init_error = "None"
    /\ last = Idle
    /\ calls = [write |-> NoCall, read |-> NoCall]
    /\ execIn \in [sql : SqlInputs, limit : Limits]
    /\ execOut = [called |-> FALSE, avail |-> 0, res |-> NoResult]

ExecuteCall ==
    /\ ~execOut.called
    /\ \E db \in DbOutcomes :
          execOut' = [called |-> TRUE, avail |-> db.avail,
                      res |-> Execute(execIn.sql, execIn.limit, db)]
    /\ UNCHANGED <<cache, cacheFile, vanna_ai, model_init_error, last, calls, execIn, studyVars>>

NextExec == ExecuteCall

SpecExec == InitExec /\ [][NextExec]_vars

----------------------------------------------------------------------------
(* The QueryCache interface on its own                                     *)

InitCache ==
    /\ StudiesIdle
    /\ cache = EmptyMap
    /\ cacheFile = NoFile
    /\ vanna_ai = "None"
    /\ model_init_error = "None"
    /\ last = Idle
    /\ calls = [write |-> NoCall, read |-> NoCall]
    /\ execIn = [sql |-> <<>>, limit |-> DefaultLimit]
    /\ execOut = [called |-> FALSE, avail |-> 0, res |-> NoResult]

\* query_cache.set(q, s)
SetCall(q, s) ==
    /\ cache' = CacheSet(cache, q, s)
    /\ IF CacheSetWrites(cache, q, s)
       THEN \E out \in SaveOutcomes : cacheFile' = Save(cache', cacheFile, out)
       ELSE cacheFile' = cacheFile
    /\ calls' = [write |-> [op |-> "set", question |-> q, sql |-> s,
                            held |-> CacheGet(cache, q), ret |-> None],
                 read |-> NoCall]
    /\ UNCHANGED <<vanna_ai, model_init_error, last, execIn, execOut, studyVars>>

\* query_cache.get(q)
GetCall(q) ==
    /\ calls' = [calls EXCEPT !.read = [op |-> "get", question |-> q, sql |-> None,
                                         held |-> None,
                                         ret |-> CacheGet(cache, q)]]
    /\ UNCHANGED <<cache, cacheFile, vanna_ai, model_init_error, last, execIn, execOut, studyVars>>

\* query_cache.clear()
ClearCall ==
    /\ cache' = CacheClear(cache)
    /\ \E out \in SaveOutcomes : cacheFile' = Save(cache', cacheFile, out)
    /\ calls' = [write |-> [op |-> "clear", question |-> <<>>, sql |-> None,
                            held |-> None, ret |-> None],
                 read |-> NoCall]
    /\ UNCHANGED <<vanna_ai, model_init_error, last, execIn, execOut, studyVars>>

NextCache ==
    \/ \E q \in CacheQuestions, s \in CacheSqls : SetCall(q, s)
    \/ \E q \in CacheQuestions : GetCall(q)
    \/ ClearCall

SpecCache == InitCache /\ [][NextCache]_vars

----------------------------------------------------------------------------
(* Properties of SQLExecutor, checked under SpecExec                        *)

\* position i starts, and position j ends, a maximal run of word characters of s
IsWordStart(s, i) == IsWordCh(s[i]) /\ (i = 1 \/ ~IsWordCh(s[i-1]))
IsWordEnd(s, j) == IsWordCh(s[j]) /\ (j = Len(s) \/ ~IsWordCh(s[j+1]))

\* kw, compared without regard to letter case, is a whole word of s
OccursAsWholeWord(kw, s) ==
    \E i \in 1..(Len(s) - Len(kw) + 1) :
        /\ IsWordStart(s, i)
        /\ IsWordEnd(s, i + Len(kw) - 1)
        /\ Upper(SubSeq(s, i, i + Len(kw) - 1)) = kw

\* every occurrence of kw in s, in any letter case, has a word character next to it
OccursOnlyInsideLongerWords(kw, s) ==
    \A i \in 1..(Len(s) - Len(kw) + 1) :
        Upper(SubSeq(s, i, i + Len(kw) - 1)) = kw
            => \/ (i > 1 /\ IsWordCh(s[i-1]))
               \/ (i + Len(kw) <= Len(s) /\ IsWordCh(s[i + Len(kw)]))

StartsReadOnly(s) ==
    \/ StartsWith(Upper(Strip(s)), <<"S","E","L","E","C","T">>)
    \/ StartsWith(Upper(Strip(s)), <<"W","I","T","H">>)

MustBeRejected(s) ==
    \/ Strip(s) = <<>>
    \/ ~StartsReadOnly(s)
    \/ \E k \in DOMAIN BLOCKED_KEYWORDS : OccursAsWholeWord(BLOCKED_KEYWORDS[k], s)

\* C2: execute raises before it opens a connection whenever the statement is
\* empty or blank, or its trimmed, case-folded text does not start with SELECT
\* or WITH, or a blocked keyword occurs in it as a whole word in any letter
\* case; so no statement reaches the database unless it passed the validation.
C2_UnsafeStatementRaisesBeforeConnect ==
    execOut.called =>
        /\ MustBeRejected(execIn.sql) =>
              /\ execOut.res.raised
              /\ execOut.res.error = "ValueError"
              /\ ~execOut.res.connected
        /\ execOut.res.connected => IsSafeQuery(execIn.sql)

\* a statement that starts with SELECT and holds a blocked keyword in lower
\* case as a whole word has been rejected without a connection
C2_Witness ==
    /\ execOut.called
    /\ StartsWith(execIn.sql, <<"S","E","L","E","C","T">>)
    /\ OccursAsWholeWord(<<"D","E","L","E","T","E">>, execIn.sql)
    /\ ~Contains(execIn.sql, <<"D","E","L","E","T","E">>)
    /\ execOut.res.raised
    /\ ~execOut.res.connected

\* C3: a statement that starts with SELECT or WITH, and in which a blocked
\* keyword occurs only as part of a longer identifier (updated_at), passes the
\* read-only check: execute does not reject it and goes on to the database.
C3_KeywordInsideIdentifierAccepted ==
    /\ execOut.called
    /\ StartsReadOnly(execIn.sql)
    /\ \A k \in DOMAIN BLOCKED_KEYWORDS :
          OccursOnlyInsideLongerWords(BLOCKED_KEYWORDS[k], execIn.sql)
    => /\ execOut.res.error # "ValueError"
       /\ execOut.res.connected

\* a SELECT over the identifier updated_at has gone to the database
C3_Witness ==
    /\ execOut.called
    /\ StartsWith(execIn.sql, <<"S","E","L","E","C","T">>)
    /\ Contains(execIn.sql, <<"u","p","d","a","t","e","d","_","a","t">>)
    /\ \A k \in DOMAIN BLOCKED_KEYWORDS :
          OccursOnlyInsideLongerWords(BLOCKED_KEYWORDS[k], execIn.sql)
    /\ execOut.res.connected

\* the statement has a LIMIT clause: the keyword LIMIT is one of its words
HasLimitClause(s) == OccursAsWholeWord(<<"L","I","M","I","T">>, s)

\* C4: an accepted statement without a LIMIT clause is run with
\* ' LIMIT <limit>' appended, so its result has at most limit rows; a statement
\* with a LIMIT clause is run unchanged.
C4_LimitAppendedWhenNoLimitClause ==
    execOut.called /\ execOut.res.connected =>
        IF HasLimitClause(execIn.sql)
        THEN execOut.res.stmt = execIn.sql
        ELSE /\ EndsWith(execOut.res.stmt, <<" ","L","I","M","I","T"," ">> \o Dec(execIn.limit))
             /\ execOut.res.nrows <= execIn.limit

\* an accepted statement without a LIMIT clause was run as it stands and
\* returned more rows than the limit
C4_Witness ==
    /\ execOut.called
    /\ ~execOut.res.raised
    /\ ~HasLimitClause(execIn.sql)
    /\ execOut.res.stmt = execIn.sql
    /\ execOut.res.nrows > execIn.limit

----------------------------------------------------------------------------
(* Properties of QueryCache, checked under SpecCache                        *)

\* a question without its letter case, its punctuation and its surplus whitespace
Canonical(text) == CollapseSpaces(RemovePunctuation(Lower(text)))

\* the two questions differ only in letter case, whitespace or punctuation
DifferOnlyInCaseSpacePunctuation(a, b) == Canonical(a) = Canonical(b)

\* C9: two questions that differ only in letter case, in leading, trailing or
\* repeated inner whitespace, or in punctuation have the same cache key, so a
\* get for one of them returns what a set for the other one stored.
C9_EquivalentQuestionsShareKey ==
    /\ calls.write.op = "set"
    /\ calls.read.op = "get"
    /\ DifferOnlyInCaseSpacePunctuation(calls.write.question, calls.read.question)
    => /\ Normalize(calls.write.question) = Normalize(calls.read.question)
       /\ calls.read.ret = calls.write.sql

\* a set into the empty cache was followed by a get for the same question with
\* one more inner space or a question mark, and the get found nothing
C9_Witness ==
    /\ calls.write.op = "set"
    /\ calls.write.held = None
    /\ calls.read.op = "get"
    /\ DifferOnlyInCaseSpacePunctuation(calls.write.question, calls.read.question)
    /\ DOMAIN cache = {Normalize(calls.write.question)}
    /\ calls.read.ret = None

\* C10: a get(q) that follows set(q, s) with no other write in between returns
\* s whatever the cache held before, and a get that follows clear() with no set
\* in between returns None for every question.
C10_GetAfterSetAndAfterClear ==
    /\ /\ calls.write.op = "set"
       /\ calls.read.op = "get"
       /\ calls.read.question = calls.write.question
       => calls.read.ret = calls.write.sql
    /\ /\ calls.write.op = "clear"
       /\ calls.read.op = "get"
       => calls.read.ret = None

\* a set has replaced another value the key held, and the get returned the new one
C10_Witness ==
    /\ calls.write.op = "set"
    /\ calls.write.held \notin {None, calls.write.sql}
    /\ calls.read.op = "get"
    /\ calls.read.question = calls.write.question
    /\ calls.read.ret = calls.write.sql

----------------------------------------------------------------------------
(* Properties of the /query handler, checked under Spec                     *)

\* the handler met the conditions of the cache write
WritePolicyMet ==
    /\ last.op = "query"
    /\ ~last.hit
    /\ last.routed
    /\ ~last.genRaised
    /\ ~StartsWith(last.candidate, <<"C","O","N","V","E","R","S","A","T","I","O","N","A","L",":">>)
    /\ ~StartsWith(last.candidate, <<"I","D","E","N","T","I","T","Y",":">>)
    /\ ~Contains(last.candidate, <<"[","D","A","T","E","_","C","O","N","D","I","T","I","O","N","]">>)
    /\ last.execCalls = 1
    /\ ~last.exec.raised
    /\ last.resp.success

\* C1: from an empty cache on, query_cache.set is called only in a request whose
\* lookup missed, whose generate_sql returned, whose candidate is no
\* CONVERSATIONAL: or IDENTITY: text and holds no [DATE_CONDITION], and whose
\* execute returned; so every cache value passed the read-only check and was
\* executed when it was written.
C1_CacheWrittenOnlyAfterSuccess ==
    /\ [](/\ last.setCalled => WritePolicyMet
          /\ \A k \in DOMAIN cache : ~MustBeRejected(cache[k]))
    /\ [][\A k \in DOMAIN cache' :
             (k \notin DOMAIN cache \/ cache'[k] # cache[k])
                => /\ last'.setCalled
                   /\ k = Normalize(last'.question)
                   /\ cache'[k] = last'.candidate
                   /\ last'.exec.stmt = WithLimit(cache'[k], DefaultLimit)]_vars

\* a request has written the statement the model gave into the cache
C1_Witness ==
    /\ last.setCalled
    /\ last.llmCalled
    /\ Normalize(last.question) \in DOMAIN cache
    /\ cache[Normalize(last.question)] = last.candidate
    /\ Normalize(last.question) \notin DOMAIN last.cacheBefore

IsSentinelCandidate ==
    /\ last.op = "query"
    /\ last.status = 200
    /\ ~last.genRaised
    /\ \/ StartsWith(last.candidate, <<"C","O","N","V","E","R","S","A","T","I","O","N","A","L",":">>)
       \/ StartsWith(last.candidate, <<"I","D","E","N","T","I","T","Y",":">>)

\* C5: a request whose candidate starts with CONVERSATIONAL: or IDENTITY:
\* answers success = true with an empty sql field, calls execute not at all and
\* leaves the cache as it was.
C5_SentinelNeverExecuted ==
    IsSentinelCandidate =>
        /\ last.resp.success
        /\ last.resp.sql = <<>>
        /\ last.execCalls = 0
        /\ ~last.setCalled
        /\ cache = last.cacheBefore

\* the question "hi" was answered with the greeting
C5_Witness ==
    /\ IsSentinelCandidate
    /\ last.question = <<"h","i">>
    /\ last.rule = "greeting"
    /\ last.resp.success
    /\ last.resp.results = "message"

\* C6: when the model raises inside generate_sql, the request answers
\* success = false with an empty sql field and an error message; execute is not
\* called, no template takes the place of the answer, and the cache is unchanged.
C6_GenerationFailureSurfaced ==
    last.op = "query" /\ last.llmCalled /\ last.llmRaises =>
        /\ last.genRaised
        /\ last.candidate = None
        /\ last.status = 200
        /\ ~last.resp.success
        /\ last.resp.sql = <<>>
        /\ last.resp.error = "SQL generation failed"
        /\ last.execCalls = 0
        /\ ~last.setCalled
        /\ cache = last.cacheBefore

\* the model raised in the default rule while the cache held an entry
C6_Witness ==
    /\ last.op = "query"
    /\ last.rule = "default_llm"
    /\ last.llmRaises
    /\ last.genRaised
    /\ ~last.resp.success
    /\ cache # EmptyMap

\* C7: when execute raises, for an unsafe statement or for an error of the
\* database, the request answers success = false with the attempted statement in
\* the sql field; execute was called once, the handler returned a response, and
\* the cache is unchanged.
C7_ExecutionFailureSurfaced ==
    last.op = "query" /\ last.execCalls > 0 /\ last.exec.raised =>
        /\ last.exec.error \in {"ValueError", "sqlite3.Error"}
        /\ last.status = 200
        /\ ~last.resp.success
        /\ last.resp.sql = last.candidate
        /\ last.resp.error = "SQL execution failed"
        /\ last.execCalls = 1
        /\ ~last.setCalled
        /\ cache = last.cacheBefore

\* the database rejected a statement that had passed the read-only check
C7_Witness ==
    /\ last.op = "query"
    /\ last.execCalls = 1
    /\ last.exec.raised
    /\ last.exec.error = "sqlite3.Error"
    /\ last.exec.connected
    /\ ~last.resp.success
    /\ last.resp.sql = last.candidate

\* C8: on a cache hit generate_sql and the model are not called, the cached
\* statement goes through execute and its read-only check before it runs, and
\* the cache is not written.
C8_CacheHitSkipsRouter ==
    last.op = "query" /\ last.hit =>
        /\ ~last.routed
        /\ ~last.llmCalled
        /\ Normalize(last.question) \in DOMAIN last.cacheBefore
        /\ last.candidate = last.cacheBefore[Normalize(last.question)]
        /\ last.execCalls = 1
        /\ last.exec.connected => ~MustBeRejected(last.candidate)
        /\ MustBeRejected(last.candidate) => last.exec.error = "ValueError"
        /\ ~last.setCalled
        /\ cache = last.cacheBefore

\* a question was answered from the cache and its statement was executed
C8_Witness ==
    /\ last.op = "query"
    /\ last.hit
    /\ last.execCalls = 1
    /\ last.exec.connected
    /\ last.resp.success
    /\ last.resp.sql = last.cacheBefore[Normalize(last.question)]

----------------------------------------------------------------------------
(* QueryCache and its file, with _save followed statement by statement and  *)
(* the process allowed to stop and to start again                           *)

\* QueryCache.load_cache: a missing file leaves {}, a file json.load cannot
\* decode is logged and leaves {}
LoadCache(file) == IF file.state = "ok" THEN file.map ELSE EmptyMap

\* open(self.cache_file, 'w'): the file exists and is empty from here on
OpenForWrite(file) == [state |-> "corrupt", map |-> EmptyMap]

\* json.dump(self.cache, f, indent=2) and the close of the file
DumpJson(c, file) == [state |-> "ok", map |-> c]

\* store.pc: "idle" between calls, "opening" and "dumping" inside _save,
\* "down" while the process is not running; store.op: the call in progress or
\* the last one completed; store.prev: the file when the call began;
\* store.new: the map the call saves
StoreIdle(op, file, c) == [pc |-> "idle", op |-> op, prev |-> file, new |-> c]

InitPersist ==
    /\ cache = EmptyMap
    /\ cacheFile = NoFile
    /\ vanna_ai = "None"
    /\ model_init_error = "None"
    /\ last = Idle
    /\ calls = [write |-> NoCall, read |-> NoCall]
    /\ execIn = [sql |-> <<>>, limit |-> DefaultLimit]
    /\ execOut = [called |-> FALSE, avail |-> 0, res |-> NoResult]
    /\ store = StoreIdle("load", NoFile, EmptyMap)
    /\ inflight = <<>>
    /\ route = NoRoute
    /\ dateq = NoDate
    /\ ledger = NoLedger
    /\ dl = NoDl

\* what the study of _save leaves alone
persistFrame == <<vanna_ai, model_init_error, last, calls, execIn, execOut,
                  inflight, route, dateq, ledger, dl>>

\* QueryCache.set up to the call of _save
SetBegins(q, s) ==
    /\ store.pc = "idle"
    /\ cache' = CacheSet(cache, q, s)
    /\ store' = [pc |-> IF CacheSetWrites(cache, q, s) THEN "opening" ELSE "idle",
                 op |-> "set", prev |-> cacheFile, new |-> cache']
    /\ UNCHANGED <<cacheFile, persistFrame>>

\* QueryCache.clear up to the call of _save
ClearBegins ==
    /\ store.pc = "idle"
    /\ cache' = CacheClear(cache)
    /\ store' = [pc |-> "opening", op |-> "clear", prev |-> cacheFile, new |-> cache']
    /\ UNCHANGED <<cacheFile, persistFrame>>

\* _save: the open; when it raises, the except logs and the call returns
SaveOpens ==
    /\ store.pc = "opening"
    /\ \/ /\ cacheFile' = OpenForWrite(cacheFile)
          /\ store' = [store EXCEPT !.pc = "dumping"]
       \/ /\ cacheFile' = cacheFile
          /\ store' = [store EXCEPT !.pc = "idle"]
    /\ UNCHANGED <<cache, persistFrame>>

\* _save: the dump; when it raises, the except logs and the call returns
SaveDumps ==
    /\ store.pc = "dumping"
    /\ \/ cacheFile' = DumpJson(cache, cacheFile)
       \/ cacheFile' = cacheFile
    /\ store' = [store EXCEPT !.pc = "idle"]
    /\ UNCHANGED <<cache, persistFrame>>

\* the process stops, at any statement; the memory is gone, the file stays
ProcessStops ==
    /\ store.pc # "down"
    /\ store' = [store EXCEPT !.pc = "down"]
    /\ cache' = EmptyMap
    /\ UNCHANGED <<cacheFile, persistFrame>>

\* the process starts: QueryCache.__init__ loads the file
ProcessStarts ==
    /\ store.pc = "down"
    /\ cache' = LoadCache(cacheFile)
    /\ store' = StoreIdle("load", cacheFile, cache')
    /\ UNCHANGED <<cacheFile, persistFrame>>

NextPersist ==
    \/ \E q \in CacheQuestions, s \in CacheSqls : SetBegins(q, s)
    \/ ClearBegins
    \/ SaveOpens
    \/ SaveDumps
    \/ ProcessStops
    \/ ProcessStarts

SpecPersist == InitPersist /\ [][NextPersist]_vars

\* C11: after every completed set or clear the file decodes to exactly the map
\* in memory, so a QueryCache constructed later on the same path holds exactly
\* the entries present when that call finished.
C11_FileEqualsMapAfterWrite ==
    store.pc = "idle" /\ store.op \in {"set", "clear"} =>
        /\ cacheFile.state = "ok"
        /\ LoadCache(cacheFile) = cache

\* a set has completed, the map holds its entry, and the file does not decode
C11_Witness ==
    /\ store.pc = "idle"
    /\ store.op = "set"
    /\ cache # EmptyMap
    /\ cacheFile.state = "corrupt"
    /\ LoadCache(cacheFile) # cache

\* C12: writes of the file are atomic: at every point, a stop of the process in
\* the middle of _save included, the file holds the complete map it held when
\* the call began or the complete new map, never a cut one.
C12_FileAlwaysComplete ==
    store.op \in {"set", "clear"} =>
        \/ cacheFile = store.prev
        \/ cacheFile.state = "ok" /\ cacheFile.map = store.new

\* the process stopped inside _save: the file is cut, and the entries it held
\* when the call began are lost
C12_Witness ==
    /\ store.pc = "down"
    /\ store.op \in {"set", "clear"}
    /\ store.prev.state = "ok"
    /\ store.prev.map # EmptyMap
    /\ cacheFile.state = "corrupt"
    /\ LoadCache(cacheFile) = EmptyMap

----------------------------------------------------------------------------
(* Several /query requests in flight at once on the event loop of uvicorn.  *)
(* A request is "queued" until the loop calls its handler, "generating"     *)
(* while the handler is inside generate_sql after a cache miss, "executing" *)
(* after a cache hit, and "done" once the handler has returned.             *)

\* number of requests in flight together
MaxRequests == 2

LoopQuestions == {<<"l","o","w"," ","s","t","o","c","k">>, <<"s","h","o","w"," ","i","t","e","m","s">>, <<"h","i">>}

Queued(q) == [question |-> q, pc |-> "queued", cached |-> None, missed |-> FALSE,
              generated |-> FALSE, persisted |-> FALSE]

Running(r) == r.pc \in {"generating", "executing"}

\* a loop that hands every request to a thread of its own
LoopFreeAlways(reqs) == TRUE

\* a loop that runs generate_sql off the loop thread and goes on meanwhile
LoopFreeWhileGenerating(reqs) == \A i \in DOMAIN reqs : reqs[i].pc # "executing"

\* `async def query` has no await: once the loop has called the handler, it
\* calls no other handler before this one returns
LoopFree(reqs) == \A i \in DOMAIN reqs : ~Running(reqs[i])

\* the handler is inside LlamaCppLLM.generate
LlmBusy(r) == r.pc = "generating" /\ RuleOf(r.question) \in LlmRules

loopFrame == <<vanna_ai, model_init_error, calls, execIn, execOut, store, route, dateq, ledger, dl>>

InitLoop ==
    /\ cache = EmptyMap
    /\ cacheFile = NoFile
    /\ vanna_ai = "VannaAI"
    /\ model_init_error = "None"
    /\ last = Idle
    /\ calls = [write |-> NoCall, read |-> NoCall]
    /\ execIn = [sql |-> <<>>, limit |-> DefaultLimit]
    /\ execOut = [called |-> FALSE, avail |-> 0, res |-> NoResult]
    /\ store = NoStore
    /\ inflight \in [1..MaxRequests -> {Queued(q) : q \in LoopQuestions}]
    /\ route = NoRoute
    /\ dateq = NoDate
    /\ ledger = NoLedger
    /\ dl = NoDl

\* the loop calls the handler of request i: the cache lookup, and on a miss the
\* entry into generate_sql
HandlerBegins(i) ==
    /\ inflight[i].pc = "queued"
    /\ LoopFree(inflight)
    /\ LET cached_sql == CacheGet(cache, inflight[i].question)
       IN  inflight' = [inflight EXCEPT
                           ![i].cached = cached_sql,
                           ![i].pc = IF Truthy(cached_sql) THEN "executing"
                                     ELSE "generating"]
    /\ UNCHANGED <<cache, cacheFile, last, loopFrame>>

\* the rest of the handler of request i, up to its return
HandlerReturns(i) ==
    /\ Running(inflight[i])
    /\ AnswerLookup(inflight[i].question, inflight[i].cached)
    /\ inflight' = [inflight EXCEPT ![i].pc = "done",
                                    ![i].missed = ~last'.hit,
                                    ![i].generated = last'.routed,
                                    ![i].persisted = last'.setCalled]
    /\ UNCHANGED loopFrame

NextLoop ==
    \/ \E i \in DOMAIN inflight : HandlerBegins(i)
    \/ \E i \in DOMAIN inflight : HandlerReturns(i)

SpecLoop == InitLoop /\ [][NextLoop]_vars

C14_InferenceSingleFlight ==
    \A i \in DOMAIN inflight :
        LlmBusy(inflight[i]) =>
            \A j \in DOMAIN inflight \ {i} : inflight[j].pc \in {"queued", "done"}

\* one request is inside the model while another one that needs the model waits
C14_Witness ==
    \E i, j \in DOMAIN inflight :
        /\ i # j
        /\ LlmBusy(inflight[i])
        /\ inflight[j].pc = "queued"
        /\ RuleOf(inflight[j].question) \in LlmRules

----------------------------------------------------------------------------
(* VannaAI.generate_sql on its own: which rule answers a question           *)

\* number of phrases a question under test is made of
MaxPhrases == 3

RouterPhrases ==
    {<<"p","r","o","d","u","c","t">>, <<"c","u","s","t","o","m","e","r">>, <<"s","o","l","d">>, <<"k","i","s","s","e","s"," ","b","o","u","g","h","t"," ","b","y"," ","c","u","s","t","o","m","e","r">>, <<"l","o","w"," ","s","t","o","c","k">>,
     <<"r","u","n","n","i","n","g"," ","l","o","w">>, <<"o","u","t"," ","o","f"," ","s","t","o","c","k">>, <<"z","e","r","o"," ","s","t","o","c","k">>, <<"t","h","a","n","k","s">>, <<"H","i">>}

RouterQuestions ==
    {Join(p, <<" ">>) : p \in UNION {[1..n -> RouterPhrases] : n \in 1..MaxPhrases}}

\* the model's answer in this study
RouterLlm == [raises |-> FALSE, content |-> <<"S","E","L","E","C","T"," ","n","a","m","e"," ","F","R","O","M"," ","p","r","o","d","u","c","t","s">>]

\* the texts of the customer, revenue, supplier and product templates are not
\* part of the model: a question they answer is recorded by its rule alone
RouteOf(rule) ==
    IF rule = "templates" THEN None
    ELSE GenerateByRule(rule, CHOOSE info \in CompanyInfos : info.address = <<>>,
                        RouterLlm).sql

InitRouter ==
    /\ cache = EmptyMap
    /\ cacheFile = NoFile
    /\ vanna_ai = "VannaAI"
    /\ model_init_error = "None"
    /\ last = Idle
    /\ calls = [write |-> NoCall, read |-> NoCall]
    /\ execIn = [sql |-> <<>>, limit |-> DefaultLimit]
    /\ execOut = [called |-> FALSE, avail |-> 0, res |-> NoResult]
    /\ store = NoStore
    /\ inflight = <<>>
    /\ route \in {[NoRoute EXCEPT !.question = q] : q \in RouterQuestions}
    /\ dateq = NoDate
    /\ ledger = NoLedger
    /\ dl = NoDl

\* vanna_ai.generate_sql(question)
GenerateSqlCall ==
    /\ ~route.done
    /\ route' = [route EXCEPT !.done = TRUE, !.rule = RuleOf(route.question),
                              !.sql = RouteOf(RuleOf(route.question))]
    /\ UNCHANGED <<cache, cacheFile, vanna_ai, model_init_error, last, calls, execIn,
                   execOut, store, inflight, dateq, ledger, dl>>

NextRouter == GenerateSqlCall

SpecRouter == InitRouter /\ [][NextRouter]_vars

\* the question, lower-cased, holds the phrase
Mentions(question, phrase) == Contains(Lower(question), phrase)

ProductCustomerNotSold(question) ==
    /\ Mentions(question, <<"p","r","o","d","u","c","t">>)
    /\ Mentions(question, <<"c","u","s","t","o","m","e","r">>)
    /\ ~Mentions(question, <<"s","o","l","d">>)

EarlierRules == {"greeting", "identity", "farewell", "help", "low_stock", "out_of_stock"}

\* C15 as stated: every question with 'product' and 'customer' and without
\* 'sold' goes to the model, with the context of the vector store, and never to
\* the product-lookup or a customer template; 'kisses bought by customer' too.
C15_ProductCustomerAlwaysDelegated ==
    route.done =>
        /\ ProductCustomerNotSold(route.question) =>
              /\ route.rule = "purchase_llm"
              /\ route.sql = RouterLlm.content
        /\ route.question = <<"k","i","s","s","e","s"," ","b","o","u","g","h","t"," ","b","y"," ","c","u","s","t","o","m","e","r">> => route.rule = "purchase_llm"

\* C15, amended: every question with 'product' and 'customer' and without 'sold'
\* that no earlier rule answers (greeting, identity, farewell, help, low stock,
\* out of stock) goes to the model; with or without an earlier rule it never
\* reaches the product-lookup or a customer template; 'kisses bought by
\* customer' goes to the model.
C15_ProductCustomerDelegatedAfterEarlierRules ==
    route.done =>
        /\ ProductCustomerNotSold(route.question) =>
              /\ route.rule \notin {"templates", "pending_credit"}
              /\ route.rule \notin EarlierRules =>
                    /\ route.rule = "purchase_llm"
                    /\ route.sql = RouterLlm.content
        /\ route.question = <<"k","i","s","s","e","s"," ","b","o","u","g","h","t"," ","b","y"," ","c","u","s","t","o","m","e","r">> =>
              /\ route.rule = "purchase_llm"
              /\ route.sql = RouterLlm.content

\* a question with both words, and no earlier rule, was answered by the model
C15_Witness ==
    /\ route.done
    /\ ProductCustomerNotSold(route.question)
    /\ ~Mentions(route.question, <<"b","o","u","g","h","t">>)
    /\ route.rule = "purchase_llm"
    /\ route.sql = RouterLlm.content

HasLowStockPhrase(question) ==
    Mentions(question, <<"l","o","w"," ","s","t","o","c","k">>) \/ Mentions(question, <<"r","u","n","n","i","n","g"," ","l","o","w">>)

HasOutOfStockPhrase(question) ==
    \/ Mentions(question, <<"o","u","t"," ","o","f"," ","s","t","o","c","k">>)
    \/ Mentions(question, <<"n","o"," ","s","t","o","c","k">>)
    \/ Mentions(question, <<"z","e","r","o"," ","s","t","o","c","k">>)

Conversational == {"greeting", "identity", "farewell", "help"}

\* C16 as stated: a question with 'low stock' or 'running low' returns exactly
\* the low-stock template (stock_quantity < 10, ascending by stock_quantity),
\* also when it holds an out-of-stock phrase, and the out-of-stock template
\* (stock_quantity = 0) is returned only without a low-stock phrase.
C16_LowStockAlwaysWins ==
    route.done =>
        /\ HasLowStockPhrase(route.question) => route.sql = LowStockSql
        /\ route.sql = OutOfStockSql => ~HasLowStockPhrase(route.question)

\* C16, amended: the same for every question that no conversational rule
\* (greeting, identity, farewell, help) answers first.
C16_LowStockBeforeOutOfStock ==
    route.done =>
        /\ LowStockSql # OutOfStockSql
        /\ Contains(LowStockSql, <<"W","H","E","R","E"," ","p",".","s","t","o","c","k","_","q","u","a","n","t","i","t","y"," ","<"," ","1","0">>)
        /\ Contains(LowStockSql, <<"O","R","D","E","R"," ","B","Y"," ","p",".","s","t","o","c","k","_","q","u","a","n","t","i","t","y"," ","A","S","C">>)
        /\ Contains(OutOfStockSql, <<"W","H","E","R","E"," ","p",".","s","t","o","c","k","_","q","u","a","n","t","i","t","y"," ","="," ","0">>)
        /\ HasLowStockPhrase(route.question) /\ route.rule \notin Conversational
              => route.rule = "low_stock" /\ route.sql = LowStockSql
        /\ route.sql = OutOfStockSql =>
              /\ route.rule = "out_of_stock"
              /\ ~HasLowStockPhrase(route.question)
              /\ HasOutOfStockPhrase(route.question)

\* a question with a low-stock and an out-of-stock phrase got the low-stock template
C16_Witness ==
    /\ route.done
    /\ HasLowStockPhrase(route.question)
    /\ HasOutOfStockPhrase(route.question)
    /\ route.sql = LowStockSql

----------------------------------------------------------------------------
(* Calendar arithmetic, as Python's datetime and SQLite's date functions     *)
(* carry it out.  A date is counted by its proleptic Gregorian ordinal       *)
(* (0001-01-01 is day 1, as date.toordinal()).                               *)

IsLeap(y) == (y % 4 = 0 /\ y % 100 # 0) \/ y % 400 = 0

DaysInMonth(y, m) ==
    IF m = 2 THEN (IF IsLeap(y) THEN 29 ELSE 28)
    ELSE IF m \in {4, 6, 9, 11} THEN 30 ELSE 31

RECURSIVE DaysBeforeMonth(_, _)
DaysBeforeMonth(y, m) ==
    IF m = 1 THEN 0 ELSE DaysBeforeMonth(y, m - 1) + DaysInMonth(y, m - 1)

DaysBeforeYear(y) ==
    365 * (y - 1) + ((y - 1) \div 4) - ((y - 1) \div 100) + ((y - 1) \div 400)

\* the ordinal of year y, month m, day d; a day past the end of the month
\* runs on into the next month, as in SQLite's computeJD
Ordinal(y, m, d) == DaysBeforeYear(y) + DaysBeforeMonth(y, m) + d

\* the years the clocks and the rows of the model lie in
Years == 2020..2030

YearOf(n) == CHOOSE y \in Years : DaysBeforeYear(y) < n /\ n <= DaysBeforeYear(y + 1)
MonthOf(n) ==
    CHOOSE m \in 1..12 :
        /\ Ordinal(YearOf(n), m, 1) <= n
        /\ n < Ordinal(YearOf(n), m, 1) + DaysInMonth(YearOf(n), m)
DayOf(n) == n - Ordinal(YearOf(n), MonthOf(n), 1) + 1

\* strftime('%w'): 0 is Sunday
WeekdayOf(n) == n % 7

\* strftime('%W'): week of the year, weeks starting on Monday
WeekOfYear(n) ==
    (n - Ordinal(YearOf(n), 1, 1) + 7 - ((WeekdayOf(n) + 6) % 7)) \div 7

MinutesPerDay == 24 * 60

\* a point in time: the ordinal of its date and the minute of its day
TimeValue(y, m, d, hh, mi) == [day |-> Ordinal(y, m, d), min |-> hh * 60 + mi]

\* SQLite modifiers 'N hours', 'N minutes' (n in minutes) and 'N days'
AddMinutes(t, n) ==
    [day |-> t.day + ((t.min + n) \div MinutesPerDay),
     min |-> (t.min + n) % MinutesPerDay]
AddDays(t, n) == [t EXCEPT !.day = t.day + n]

\* SQLite modifier 'N months': the month moves, the day of the month stays and
\* overflows into the following month when the target month is shorter
AddMonths(t, n) ==
    LET y == YearOf(t.day)
        months == MonthOf(t.day) + n - 1
    IN  [t EXCEPT !.day = Ordinal(y + (months \div 12), (months % 12) + 1, DayOf(t.day))]

\* SQLite modifier 'N years'
AddYears(t, n) ==
    [t EXCEPT !.day = Ordinal(YearOf(t.day) + n, MonthOf(t.day), DayOf(t.day))]

\* SQLite modifier 'start of month'
StartOfMonth(t) == [day |-> Ordinal(YearOf(t.day), MonthOf(t.day), 1), min |-> 0]

\* SQLite modifier 'weekday N': forward to the next day that is weekday N,
\* staying put when the day already is
WeekdayModifier(t, n) == [t EXCEPT !.day = t.day + ((n - WeekdayOf(t.day) + 7) % 7)]

\* the modifiers the predicates of get_date_filter use
Hours(n) == [k |-> "minutes", n |-> 60 * n]
Minutes(n) == [k |-> "minutes", n |-> n]
Days(n) == [k |-> "days", n |-> n]
Months(n) == [k |-> "months", n |-> n]
YearsMod(n) == [k |-> "years", n |-> n]
StartOfMonthMod == [k |-> "start of month", n |-> 0]
Weekday(n) == [k |-> "weekday", n |-> n]

ApplyModifier(t, mod) ==
    CASE mod.k = "minutes" -> AddMinutes(t, mod.n)
      [] mod.k = "days" -> AddDays(t, mod.n)
      [] mod.k = "months" -> AddMonths(t, mod.n)
      [] mod.k = "years" -> AddYears(t, mod.n)
      [] mod.k = "start of month" -> StartOfMonth(t)
      [] mod.k = "weekday" -> WeekdayModifier(t, mod.n)

\* SQLite applies the modifiers from left to right
RECURSIVE ApplyModifiers(_, _)
ApplyModifiers(t, mods) ==
    IF mods = <<>> THEN t
    ELSE ApplyModifiers(ApplyModifier(t, Head(mods)), Tail(mods))

----------------------------------------------------------------------------
(* datetime.strptime, as _strptime.py carries it out: the format becomes a  *)
(* regular expression, re.match takes its first match, and text left over   *)
(* after the match is an error.                                             *)

IsDigitCh(c) == c \in Range(DigitChars)
DigitVal(c) == CHOOSE n \in 0..9 : DigitChars[n + 1] = c

\* int(s) for a run of digits
RECURSIVE ToInt(_)
ToInt(s) == IF s = <<>> THEN 0 ELSE 10 * ToInt(SubSeq(s, 1, Len(s) - 1)) + DigitVal(s[Len(s)])

\* the character of s at i, or "" past its end
At(s, i) == IF i >= 1 /\ i <= Len(s) THEN s[i] ELSE ""

\* p stands in s at position i
OccursAt(s, p, i) == i >= 1 /\ i + Len(p) - 1 <= Len(s) /\ SubSeq(s, i, i + Len(p) - 1) = p

\* index of the first character at or after i that is not a digit
RECURSIVE SkipDigits(_, _)
SkipDigits(s, i) == IF i > Len(s) \/ ~IsDigitCh(s[i]) THEN i ELSE SkipDigits(s, i + 1)

\* calendar.month_name and calendar.month_abbr, lower-cased
MonthNames == << <<"j","a","n","u","a","r","y">>, <<"f","e","b","r","u","a","r","y">>, <<"m","a","r","c","h">>, <<"a","p","r","i","l">>, <<"m","a","y">>, <<"j","u","n","e">>, <<"j","u","l","y">>,
                 <<"a","u","g","u","s","t">>, <<"s","e","p","t","e","m","b","e","r">>, <<"o","c","t","o","b","e","r">>, <<"n","o","v","e","m","b","e","r">>, <<"d","e","c","e","m","b","e","r">> >>
MonthAbbrs == << <<"j","a","n">>, <<"f","e","b">>, <<"m","a","r">>, <<"a","p","r">>, <<"m","a","y">>, <<"j","u","n">>, <<"j","u","l">>,
                 <<"a","u","g">>, <<"s","e","p">>, <<"o","c","t">>, <<"n","o","v">>, <<"d","e","c">> >>

\* the directives and literals of a format
DirD == [t |-> "d", s |-> <<>>]
DirM == [t |-> "m", s |-> <<>>]
DirY == [t |-> "Y", s |-> <<>>]
DirB == [t |-> "B", s |-> <<>>]
Dirb == [t |-> "b", s |-> <<>>]
Ws == [t |-> "ws", s |-> <<>>]
Lit(s) == [t |-> "lit", s |-> s]

Cand(len, val) == [len |-> len, val |-> val]

\* (?P<d>3[0-1]|[1-2]\d|0[1-9]|[1-9]| [1-9])
CandidatesD(s, i) ==
    LET a == At(s, i)
        b == At(s, i + 1)
        two == \/ a = "3" /\ b \in {"0", "1"}
               \/ a \in {"1", "2"} /\ IsDigitCh(b)
               \/ a = "0" /\ IsDigitCh(b) /\ b # "0"
    IN  (IF two THEN <<Cand(2, 10 * DigitVal(a) + DigitVal(b))>> ELSE <<>>)
        \o (IF IsDigitCh(a) /\ a # "0" THEN <<Cand(1, DigitVal(a))>> ELSE <<>>)
        \o (IF a = " " /\ IsDigitCh(b) /\ b # "0" THEN <<Cand(2, DigitVal(b))>> ELSE <<>>)

\* (?P<m>1[0-2]|0[1-9]|[1-9])
CandidatesM(s, i) ==
    LET a == At(s, i)
        b == At(s, i + 1)
        two == \/ a = "1" /\ b \in {"0", "1", "2"}
               \/ a = "0" /\ IsDigitCh(b) /\ b # "0"
    IN  (IF two THEN <<Cand(2, 10 * DigitVal(a) + DigitVal(b))>> ELSE <<>>)
        \o (IF IsDigitCh(a) /\ a # "0" THEN <<Cand(1, DigitVal(a))>> ELSE <<>>)

\* (?P<Y>\d\d\d\d)
CandidatesY(s, i) ==
    IF SkipDigits(s, i) >= i + 4 THEN <<Cand(4, ToInt(SubSeq(s, i, i + 3)))>> ELSE <<>>

\* the names of a month table that stand at i; no name of a table begins another
CandidatesName(names, s, i) ==
    IF \E m \in 1..12 : OccursAt(s, names[m], i)
    THEN LET m == CHOOSE m \in 1..12 : OccursAt(s, names[m], i)
         IN  <<Cand(Len(names[m]), m)>>
    ELSE <<>>

\* \s+ : the longest run first, then shorter ones
CandidatesWs(s, i) ==
    [k \in 1..(SkipSpaces(s, i) - i) |-> Cand(SkipSpaces(s, i) - i - k + 1, 0)]

Candidates(tok, s, i) ==
    CASE tok.t = "d" -> CandidatesD(s, i)
      [] tok.t = "m" -> CandidatesM(s, i)
      [] tok.t = "Y" -> CandidatesY(s, i)
      [] tok.t = "B" -> CandidatesName(MonthNames, s, i)
      [] tok.t = "b" -> CandidatesName(MonthAbbrs, s, i)
      [] tok.t = "ws" -> CandidatesWs(s, i)
      [] tok.t = "lit" -> IF OccursAt(s, tok.s, i) THEN <<Cand(Len(tok.s), 0)>> ELSE <<>>

\* the fields strptime starts from, and the failure of a match
StrpDefaults == [ok |-> FALSE, end |-> 0, year |-> 1900, month |-> 1, day |-> 1]
NoParse == StrpDefaults

Put(acc, tok, val) ==
    CASE tok.t = "d" -> [acc EXCEPT !.day = val]
      [] tok.t \in {"m", "B", "b"} -> [acc EXCEPT !.month = val]
      [] tok.t = "Y" -> [acc EXCEPT !.year = val]
      [] OTHER -> acc

OrElse(r, alt) == IF r.ok THEN r ELSE alt

\* the first match of the format's regular expression at position i
RECURSIVE StrpMatch(_, _, _, _)
RECURSIVE TryCandidates(_, _, _, _, _, _)
StrpMatch(fmt, s, i, acc) ==
    IF fmt = <<>> THEN [acc EXCEPT !.ok = TRUE, !.end = i]
    ELSE TryCandidates(Candidates(Head(fmt), s, i), Head(fmt), Tail(fmt), s, i, acc)
TryCandidates(cands, tok, rest, s, i, acc) ==
    IF cands = <<>> THEN NoParse
    ELSE OrElse(StrpMatch(rest, s, i + Head(cands).len, Put(acc, tok, Head(cands).val)),
                TryCandidates(Tail(cands), tok, rest, s, i, acc))

\* datetime(year, month, day) accepts the fields
ValidDate(r) == r.year >= 1 /\ r.day <= DaysInMonth(r.year, r.month)

\* datetime.strptime(s, fmt): the fields, or ok = FALSE for ValueError
StrpChecked(r, s) == IF r.ok /\ r.end = Len(s) + 1 /\ ValidDate(r) THEN r ELSE NoParse
Strptime(s, fmt) == StrpChecked(StrpMatch(fmt, s, 1, StrpDefaults), s)

----------------------------------------------------------------------------
(* The SQL conditions get_date_filter returns.  A condition is a sequence of *)
(* comparisons joined by AND; "" is the empty sequence.                      *)

\* fn(column) or fn(fmt, column); fn = "none" is the bare column
OnCol(fn, fmt) == [of |-> "col", fn |-> fn, fmt |-> fmt, mods |-> <<>>, text |-> <<>>]
\* fn('now', modifiers...) or fn(fmt, 'now', modifiers...)
OnNow(fn, fmt, mods) == [of |-> "now", fn |-> fn, fmt |-> fmt, mods |-> mods, text |-> <<>>]
\* DATE('text')
DateLit(text) == [of |-> "literal", fn |-> "date", fmt |-> <<>>, mods |-> <<>>, text |-> text]
\* 'text'
Text(text) == [of |-> "literal", fn |-> "none", fmt |-> <<>>, mods |-> <<>>, text |-> text]

Cmp(lhs, op, rhs) == [lhs |-> lhs, op |-> op, rhs |-> rhs, rhs2 |-> rhs]
Between(lhs, lo, hi) == [lhs |-> lhs, op |-> "BETWEEN", rhs |-> lo, rhs2 |-> hi]

\* '+5 hours', '30 minutes'
Ist == <<Hours(5), Minutes(30)>>

\* f"{n:02d}"
Pad2(n) == IF n < 10 THEN <<"0">> \o Dec(n) ELSE Dec(n)

\* dt.strftime('%Y-%m-%d')
IsoDate(r) == Dec(r.year) \o <<"-">> \o Pad2(r.month) \o <<"-">> \o Pad2(r.day)

----------------------------------------------------------------------------
(* VannaAI.get_date_filter                                                  *)

\* 1. re.search(r'from\s+(.+?)\s+to\s+(.+)', q), for a question of one line.
\* The positions j at or after lo where ' to ' can end the first group.
RangeToPositions(q, lo) ==
    {j \in lo..(Len(q) - 3) :
        IsSpaceCh(q[j - 1]) /\ OccursAt(q, <<"t","o">>, j) /\ IsSpaceCh(q[j + 2])}

SetMin(S) == CHOOSE x \in S : \A y \in S : x <= y

\* where 'to' stands in the match that begins with the 'from' at i, or 0.
\* first is the position after the whitespace that follows 'from'.
RangeToAt(q, i, first) ==
    IF RangeToPositions(q, first + 2) # {} THEN SetMin(RangeToPositions(q, first + 2))
    ELSE IF first >= i + 7 /\ first \in RangeToPositions(q, first) THEN first
    ELSE 0

RangeFromPositions(q) ==
    {i \in 1..Len(q) :
        /\ OccursAt(q, <<"f","r","o","m">>, i)
        /\ IsSpaceCh(At(q, i + 4))
        /\ RangeToAt(q, i, SkipSpaces(q, i + 4)) # 0}

NoRange == [found |-> FALSE, start_str |-> <<>>, end_str |-> <<>>]

RangeGroups(q, i, j) ==
    [found |-> TRUE,
     start_str |-> Strip(SubSeq(q, i + 5, j - 2)),
     end_str |-> Strip(SubSeq(q, j + 3, Len(q)))]

RangeMatch(q) ==
    IF RangeFromPositions(q) = {} THEN NoRange
    ELSE RangeGroups(q, SetMin(RangeFromPositions(q)),
                     RangeToAt(q, SetMin(RangeFromPositions(q)),
                               SkipSpaces(q, SetMin(RangeFromPositions(q)) + 4)))

\* formats of parse_date_str
formats == <<
    <<DirD, Lit(<<"-">>), DirM, Lit(<<"-">>), DirY>>,
    <<DirD, Lit(<<"/">>), DirM, Lit(<<"/">>), DirY>>,
    <<DirY, Lit(<<"-">>), DirM, Lit(<<"-">>), DirD>>,
    <<DirD, Ws, DirB>>, <<DirD, Lit(<<"t","h">>), Ws, DirB>>, <<DirD, Lit(<<"s","t">>), Ws, DirB>>,
    <<DirD, Lit(<<"n","d">>), Ws, DirB>>, <<DirD, Lit(<<"r","d">>), Ws, DirB>>,
    <<DirD, Ws, Dirb>>, <<DirD, Lit(<<"t","h">>), Ws, Dirb>>, <<DirD, Lit(<<"s","t">>), Ws, Dirb>>,
    <<DirD, Lit(<<"n","d">>), Ws, Dirb>>, <<DirD, Lit(<<"r","d">>), Ws, Dirb>>,
    <<DirB, Ws, DirD>>, <<Dirb, Ws, DirD>> >>

OrdinalSuffixes == {<<"s","t">>, <<"n","d">>, <<"r","d">>, <<"t","h">>}

\* re.sub(r'(\d+)(st|nd|rd|th)\s+', r'\1 ', date_str), from position i on
RECURSIVE CleanOrdinals(_, _)
CleanOrdinals(s, i) ==
    IF i > Len(s) THEN <<>>
    ELSE IF ~IsDigitCh(s[i]) THEN <<s[i]>> \o CleanOrdinals(s, i + 1)
    ELSE LET e == SkipDigits(s, i)
         IN  IF (\E suf \in OrdinalSuffixes : OccursAt(s, suf, e)) /\ IsSpaceCh(At(s, e + 2))
             THEN SubSeq(s, i, e - 1) \o <<" ">> \o CleanOrdinals(s, SkipSpaces(s, e + 2))
             ELSE SubSeq(s, i, e - 1) \o CleanOrdinals(s, e)

NoDateStr == <<>>

\* the first format of fmts, from the k-th on, that strptime accepts
RECURSIVE FirstParse(_, _, _)
FirstParse(s, fmts, k) ==
    IF k > Len(fmts) THEN NoParse
    ELSE OrElse(Strptime(s, fmts[k]), FirstParse(s, fmts, k + 1))

\* a year of 1900 is taken for a missing year
WithCurrentYear(r, year) == IF r.year = 1900 THEN [r EXCEPT !.year = year] ELSE r

WithYearFormats == [k \in DOMAIN formats |-> formats[k] \o <<Ws, DirY>>]

\* the second pass of parse_date_str: the current year appended
ParseWithYear(r) == IF r.ok THEN IsoDate(r) ELSE NoDateStr

\* parse_date_str(date_str); year is datetime.now().year
ParseFirstPass(r, clean_str, year) ==
    IF r.ok THEN IsoDate(WithCurrentYear(r, year))
    ELSE ParseWithYear(FirstParse(clean_str \o <<" ">> \o Dec(year), WithYearFormats, 1))

ParseCleaned(clean_str, year) == ParseFirstPass(FirstParse(clean_str, formats, 1), clean_str, year)

parse_date_str(date_str, year) == ParseCleaned(CleanOrdinals(date_str, 1), year)

\* 2. re.search(r'week\s+(\d+)', q): the positions of its matches
WeekPositions(q) ==
    {i \in 1..Len(q) :
        /\ OccursAt(q, <<"w","e","e","k">>, i)
        /\ IsSpaceCh(At(q, i + 4))
        /\ IsDigitCh(At(q, SkipSpaces(q, i + 4)))}

\* week_match.group(1)
WeekNum(q, i) == SubSeq(q, SkipSpaces(q, i + 4), SkipDigits(q, SkipSpaces(q, i + 4)) - 1)

\* 2.5 and 6: the dict days, in the order of its keys
days == << <<<<"s","u","n","d","a","y">>, <<"0">>>>, <<<<"s","u","n">>, <<"0">>>>, <<<<"m","o","n","d","a","y">>, <<"1">>>>, <<<<"m","o","n">>, <<"1">>>>,
           <<<<"t","u","e","s","d","a","y">>, <<"2">>>>, <<<<"t","u","e">>, <<"2">>>>, <<<<"w","e","d","n","e","s","d","a","y">>, <<"3">>>>, <<<<"w","e","d">>, <<"3">>>>,
           <<<<"t","h","u","r","s","d","a","y">>, <<"4">>>>, <<<<"t","h","u">>, <<"4">>>>, <<<<"f","r","i","d","a","y">>, <<"5">>>>, <<<<"f","r","i">>, <<"5">>>>,
           <<<<"s","a","t","u","r","d","a","y">>, <<"6">>>>, <<<<"s","a","t">>, <<"6">>>> >>

\* f" {name} " in f" {q} "
AsWord(q, name) == Contains(<<" ">> \o q \o <<" ">>, <<" ">> \o name \o <<" ">>)

\* the value of the first key of a dict, in its order, among the keys at the
\* indices that pass the test of the loop
FirstKey(dict, passing) == IF passing = {} THEN <<>> ELSE dict[SetMin(passing)][2]

DayNum(q) == FirstKey(days, {k \in DOMAIN days : AsWord(q, days[k][1])})

\* 3. re.search(r'(?:last|past|in the last|in the past|this|next)?\s*(\d+)?\s*
\*    (year|month|week|day)s?', q).  Every part before the unit is optional,
\* and no prefix holds a unit or a digit, so the leftmost match is the one of
\* the leftmost unit in q, and its group 1 is the run of digits that stands
\* before that unit, whitespace between them or not.
units == {<<"y","e","a","r">>, <<"m","o","n","t","h">>, <<"w","e","e","k">>, <<"d","a","y">>}

UnitPositions(q) == {i \in 1..Len(q) : \E u \in units : OccursAt(q, u, i)}

\* index of the last character at or before i that is a digit-run start
RECURSIVE SkipDigitsBack(_, _)
SkipDigitsBack(s, i) == IF i < 1 \/ ~IsDigitCh(s[i]) THEN i ELSE SkipDigitsBack(s, i - 1)

NoRelative == [found |-> FALSE, amount_str |-> <<>>, unit |-> <<>>]

RelativeAt(q, i, e) ==
    [found |-> TRUE,
     amount_str |-> SubSeq(q, SkipDigitsBack(q, e) + 1, e),
     unit |-> CHOOSE u \in units : OccursAt(q, u, i)]

RelativeMatch(q) ==
    IF UnitPositions(q) = {} THEN NoRelative
    ELSE RelativeAt(q, SetMin(UnitPositions(q)),
                    SkipSpacesBack(q, SetMin(UnitPositions(q)) - 1))

\* re.search(r'\b(w1|w2|...)\b', q)
SearchWord(q, words) ==
    \E w \in words : \E i \in 1..Len(q) :
        OccursAt(q, w, i) /\ WordBoundaryAt(q, i) /\ WordBoundaryAt(q, i + Len(w))

\* the branches of section 3 for a match with the given amount and unit
RelativeFilter(amount_str, unit, is_complete, is_last) ==
    LET amount == IF amount_str = <<>> THEN 1 ELSE ToInt(amount_str)
        col == OnCol("date", <<>>)
    IN  IF amount_str = <<>> /\ unit = <<"m","o","n","t","h">> THEN
            IF is_last
            THEN <<Cmp(OnCol("strftime", <<"%","Y","-","%","m">>), "=",
                       OnNow("strftime", <<"%","Y","-","%","m">>, Ist \o <<Months(-1)>>))>>
            ELSE <<Cmp(OnCol("strftime", <<"%","Y","-","%","m">>), "=", OnNow("strftime", <<"%","Y","-","%","m">>, Ist))>>
        ELSE IF amount_str = <<>> /\ unit = <<"w","e","e","k">> THEN
            IF is_last
            THEN <<Cmp(col, ">=", OnNow("date", <<>>, Ist \o <<Weekday(0), Days(-14)>>)),
                   Cmp(col, "<", OnNow("date", <<>>, Ist \o <<Weekday(0), Days(-7)>>))>>
            ELSE <<Cmp(col, ">=", OnNow("date", <<>>, Ist \o <<Weekday(0), Days(-7)>>))>>
        ELSE IF is_complete THEN
            IF unit = <<"m","o","n","t","h">>
            THEN <<Cmp(col, ">=",
                       OnNow("date", <<>>, <<StartOfMonthMod, Months(-amount)>> \o Ist)),
                   Cmp(col, "<", OnNow("date", <<>>, <<StartOfMonthMod>> \o Ist))>>
            ELSE IF unit = <<"w","e","e","k">>
            THEN <<Cmp(col, ">=",
                       OnNow("date", <<>>, Ist \o <<Weekday(0), Days(-(7 * (amount + 1)))>>)),
                   Cmp(col, "<", OnNow("date", <<>>, Ist \o <<Weekday(0), Days(-7)>>))>>
            ELSE IF unit = <<"y","e","a","r">>
            THEN <<Cmp(col, ">=", OnNow("date", <<>>, <<YearsMod(-(amount + 1))>> \o Ist)),
                   Cmp(col, "<", OnNow("date", <<>>, <<YearsMod(-1)>> \o Ist))>>
            ELSE <<Cmp(col, ">=", OnNow("date", <<>>, <<Days(-(amount + 1))>> \o Ist)),
                   Cmp(col, "<", OnNow("date", <<>>, <<Days(-1)>> \o Ist))>>
        ELSE
            IF unit = <<"m","o","n","t","h">>
            THEN <<Cmp(col, ">=",
                       OnNow("date", <<>>, <<StartOfMonthMod, Months(-(amount - 1))>> \o Ist))>>
            ELSE IF unit = <<"w","e","e","k">>
            THEN <<Cmp(col, ">=", OnNow("date", <<>>, Ist \o <<Weekday(0), Days(-(amount * 7))>>))>>
            ELSE IF unit = <<"y","e","a","r">>
            THEN <<Cmp(col, ">=", OnNow("date", <<>>, <<YearsMod(-amount)>> \o Ist))>>
            ELSE <<Cmp(col, ">=", OnNow("date", <<>>, <<Days(-amount)>> \o Ist))>>

\* 4. the dict months, in the order of its keys
months == << <<<<"j","a","n","u","a","r","y">>, <<"0","1">>>>, <<<<"j","a","n">>, <<"0","1">>>>, <<<<"f","e","b","r","u","a","r","y">>, <<"0","2">>>>,
             <<<<"f","e","b">>, <<"0","2">>>>, <<<<"m","a","r","c","h">>, <<"0","3">>>>, <<<<"m","a","r">>, <<"0","3">>>>,
             <<<<"a","p","r","i","l">>, <<"0","4">>>>, <<<<"a","p","r">>, <<"0","4">>>>, <<<<"m","a","y">>, <<"0","5">>>>,
             <<<<"j","u","n","e">>, <<"0","6">>>>, <<<<"j","u","n">>, <<"0","6">>>>, <<<<"j","u","l","y">>, <<"0","7">>>>, <<<<"j","u","l">>, <<"0","7">>>>,
             <<<<"a","u","g","u","s","t">>, <<"0","8">>>>, <<<<"a","u","g">>, <<"0","8">>>>, <<<<"s","e","p","t","e","m","b","e","r">>, <<"0","9">>>>,
             <<<<"s","e","p">>, <<"0","9">>>>, <<<<"o","c","t","o","b","e","r">>, <<"1","0">>>>, <<<<"o","c","t">>, <<"1","0">>>>,
             <<<<"n","o","v","e","m","b","e","r">>, <<"1","1">>>>, <<<<"n","o","v">>, <<"1","1">>>>, <<<<"d","e","c","e","m","b","e","r">>, <<"1","2">>>>,
             <<<<"d","e","c">>, <<"1","2">>>> >>

MonthNum(q) ==
    FirstKey(months,
             {k \in DOMAIN months :
                 \/ AsWord(q, months[k][1])
                 \/ EndsWith(q, months[k][1])
                 \/ StartsWith(q, months[k][1] \o <<" ">>)})

\* 5. re.search(r'\b(20\d{2})\b', q): the positions of its matches
YearPositions(q) ==
    {i \in 1..(Len(q) - 3) :
        /\ OccursAt(q, <<"2","0">>, i)
        /\ IsDigitCh(q[i + 2]) /\ IsDigitCh(q[i + 3])
        /\ WordBoundaryAt(q, i) /\ WordBoundaryAt(q, i + 4)}

\* 7. the shortcuts
Shortcuts(q) ==
    IF Contains(q, <<"t","o","d","a","y">>) THEN <<Cmp(OnCol("date", <<>>), "=", OnNow("date", <<>>, Ist))>>
    ELSE IF Contains(q, <<"y","e","s","t","e","r","d","a","y">>)
    THEN <<Cmp(OnCol("date", <<>>), "=", OnNow("date", <<>>, <<Days(-1)>> \o Ist))>>
    ELSE IF Contains(q, <<"t","h","i","s"," ","w","e","e","k">>)
    THEN <<Cmp(OnCol("none", <<>>), ">=",
               OnNow("date", <<>>, <<Weekday(0), Days(-7)>> \o Ist))>>
    ELSE IF Contains(q, <<"l","a","s","t"," ","w","e","e","k">>)
    THEN <<Cmp(OnCol("none", <<>>), ">=",
               OnNow("date", <<>>, <<Weekday(0), Days(-14)>> \o Ist)),
           Cmp(OnCol("none", <<>>), "<",
               OnNow("date", <<>>, <<Weekday(0), Days(-7)>> \o Ist))>>
    ELSE IF Contains(q, <<"t","h","i","s"," ","m","o","n","t","h">>) \/ Contains(q, <<"c","u","r","r","e","n","t"," ","m","o","n","t","h">>)
    THEN <<Cmp(OnCol("strftime", <<"%","Y","-","%","m">>), "=", OnNow("strftime", <<"%","Y","-","%","m">>, Ist))>>
    ELSE IF Contains(q, <<"l","a","s","t"," ","m","o","n","t","h">>)
    THEN <<Cmp(OnCol("strftime", <<"%","Y","-","%","m">>), "=",
               OnNow("strftime", <<"%","Y","-","%","m">>, <<Months(-1)>> \o Ist))>>
    ELSE IF Contains(q, <<"t","h","i","s"," ","y","e","a","r">>)
    THEN <<Cmp(OnCol("strftime", <<"%","Y">>), "=", OnNow("strftime", <<"%","Y">>, Ist))>>
    ELSE IF Contains(q, <<"l","a","s","t"," ","y","e","a","r">>)
    THEN <<Cmp(OnCol("strftime", <<"%","Y">>), "=",
               OnNow("strftime", <<"%","Y">>, <<YearsMod(-1)>> \o Ist))>>
    ELSE <<>>

\* sections 2 to 7, for q and the matches found in it
AfterRange(q, rel) ==
    IF WeekPositions(q) # {}
    THEN <<Cmp(OnCol("strftime", <<"%","W">>), "=",
               Text(Pad2(ToInt(WeekNum(q, SetMin(WeekPositions(q)))))))>>
    ELSE IF DayNum(q) # <<>> THEN <<Cmp(OnCol("strftime", <<"%","w">>), "=", Text(DayNum(q)))>>
    ELSE IF rel.found
    THEN RelativeFilter(rel.amount_str, rel.unit, Contains(q, <<"c","o","m","p","l","e","t","e">>),
                        SearchWord(q, {<<"l","a","s","t">>, <<"p","a","s","t">>, <<"p","r","e","v","i","o","u","s">>}))
    ELSE IF MonthNum(q) # <<>> THEN <<Cmp(OnCol("strftime", <<"%","m">>), "=", Text(MonthNum(q)))>>
    ELSE IF YearPositions(q) # {}
    THEN <<Cmp(OnCol("strftime", <<"%","Y">>), "=",
               Text(SubSeq(q, SetMin(YearPositions(q)), SetMin(YearPositions(q)) + 3)))>>
    ELSE Shortcuts(q)

\* section 1, for the dates parsed from the two groups
RangeFilter(q, start_date, end_date) ==
    IF start_date # NoDateStr /\ end_date # NoDateStr
    THEN <<Between(OnCol("date", <<>>), DateLit(start_date), DateLit(end_date))>>
    ELSE AfterRange(q, RelativeMatch(q))

FilterOf(q, range, year) ==
    IF range.found
    THEN RangeFilter(q, parse_date_str(range.start_str, year),
                     parse_date_str(range.end_str, year))
    ELSE AfterRange(q, RelativeMatch(q))

\* get_date_filter(question, column); year is datetime.now().year
get_date_filter(question, year) == FilterOf(Lower(question), RangeMatch(Lower(question)), year)

----------------------------------------------------------------------------
(* What a condition selects: SQLite's evaluation of its two sides for the   *)
(* clock 'now' and a row whose column holds the date with ordinal row.      *)

\* DATE('YYYY-MM-DD')
LiteralDay(text) ==
    LET parts == Split(text, <<"-">>)
    IN  Ordinal(ToInt(parts[1]), ToInt(parts[2]), ToInt(parts[3]))

\* the point in time an expression starts from
TimeOf(e, now, row) ==
    CASE e.of = "col" -> [day |-> row, min |-> 0]
      [] e.of = "now" -> ApplyModifiers(now, e.mods)
      [] e.of = "literal" -> [day |-> LiteralDay(e.text), min |-> 0]

\* strftime(fmt, t) as a number; the texts SQLite compares have a fixed
\* width for each format, so they are equal or ordered as these numbers are
Strftime(fmt, t) ==
    CASE fmt = <<"%","Y","-","%","m">> -> 12 * YearOf(t.day) + MonthOf(t.day)
      [] fmt = <<"%","Y">> -> YearOf(t.day)
      [] fmt = <<"%","m">> -> MonthOf(t.day)
      [] fmt = <<"%","w">> -> WeekdayOf(t.day)
      [] fmt = <<"%","W">> -> WeekOfYear(t.day)

\* the value of an expression: date() and the bare date column by the ordinal
\* of the day, a quoted text of digits by its number
Eval(e, now, row) ==
    IF e.of = "literal" /\ e.fn = "none" THEN ToInt(e.text)
    ELSE IF e.fn = "strftime" THEN Strftime(e.fmt, TimeOf(e, now, row))
    ELSE TimeOf(e, now, row).day

Compare(op, l, r, r2) ==
    CASE op = "=" -> l = r
      [] op = ">=" -> l >= r
      [] op = "<" -> l < r
      [] op = "BETWEEN" -> r <= l /\ l <= r2

Holds(c, now, row) ==
    Compare(c.op, Eval(c.lhs, now, row), Eval(c.rhs, now, row), Eval(c.rhs2, now, row))

\* the row passes the condition
Satisfies(filter, now, row) == \A k \in DOMAIN filter : Holds(filter[k], now, row)

----------------------------------------------------------------------------
(* VannaAI.get_date_filter on its own: a question and a clock               *)

\* the clocks of the study, in UTC
Clocks ==
    {TimeValue(2025, 3, 15, 12, 0), TimeValue(2025, 3, 29, 12, 0),
     TimeValue(2025, 3, 31, 12, 0), TimeValue(2025, 2, 28, 20, 0),
     TimeValue(2025, 1, 31, 23, 0), TimeValue(2025, 5, 31, 6, 0),
     TimeValue(2024, 2, 29, 10, 0), TimeValue(2024, 12, 31, 19, 0),
     TimeValue(2025, 1, 1, 0, 0), TimeValue(2025, 7, 30, 18, 29),
     TimeValue(2025, 6, 1, 9, 0)}

\* the clock in the fixed offset of five and a half hours
IstOf(now) == ApplyModifiers(now, Ist)

\* datetime.now().year on a machine whose local time is UTC or UTC+5:30
LocalYears(now) == {YearOf(now.day), YearOf(IstOf(now).day)}

RangeQuestions ==
    {<<"f","r","o","m"," ","1"," ","j","a","n"," ","2","0","2","4"," ","t","o"," ","1","5"," ","j","a","n"," ","2","0","2","4">>, <<"s","a","l","e","s"," ","f","r","o","m"," ","1"," ","j","a","n"," ","2","0","2","4"," ","t","o"," ","1","5"," ","j","a","n"," ","2","0","2","4">>,
     <<"f","r","o","m"," ","1"," ","j","a","n","u","a","r","y"," ","2","0","2","4"," ","t","o"," ","1","5"," ","j","a","n","u","a","r","y"," ","2","0","2","4">>, <<"f","r","o","m"," ","0","1","-","0","1","-","2","0","2","4"," ","t","o"," ","1","5","-","0","1","-","2","0","2","4">>,
     <<"f","r","o","m"," ","2","0","2","4","-","0","1","-","0","1"," ","t","o"," ","2","0","2","4","-","0","1","-","1","5">>, <<"f","r","o","m"," ","1","/","1","/","2","0","2","4"," ","t","o"," ","1","5","/","1","/","2","0","2","4">>,
     <<"f","r","o","m"," ","1","s","t"," ","j","a","n"," ","t","o"," ","1","5","t","h"," ","j","a","n">>, <<"f","r","o","m"," ","3","1"," ","a","p","r"," ","t","o"," ","2"," ","m","a","y">>}

RelativeQuestions ==
    {<<"l","a","s","t"," ","m","o","n","t","h">>, <<"s","a","l","e","s"," ","l","a","s","t"," ","m","o","n","t","h">>, <<"t","h","i","s"," ","m","o","n","t","h">>, <<"l","a","s","t"," ","3"," ","m","o","n","t","h","s">>, <<"2"," ","w","e","e","k","s">>,
     <<"l","a","s","t"," ","w","e","e","k">>, <<"1"," ","c","o","m","p","l","e","t","e"," ","m","o","n","t","h">>, <<"2"," ","c","o","m","p","l","e","t","e"," ","m","o","n","t","h","s">>, <<"3"," ","c","o","m","p","l","e","t","e"," ","m","o","n","t","h","s">>,
     <<"c","o","m","p","l","e","t","e"," ","2"," ","m","o","n","t","h","s">>, <<"c","o","m","p","l","e","t","e"," ","2"," ","w","e","e","k","s">>, <<"c","o","m","p","l","e","t","e"," ","3"," ","d","a","y","s">>, <<"5"," ","d","a","y","s">>}

OtherQuestions ==
    {<<"t","o","d","a","y">>, <<"y","e","s","t","e","r","d","a","y">>, <<"t","h","i","s"," ","y","e","a","r">>, <<"l","a","s","t"," ","y","e","a","r">>, <<"w","e","e","k"," ","4","5">>, <<"s","a","l","e","s"," ","o","n"," ","w","e","d","n","e","s","d","a","y">>,
     <<"s","a","l","e","s"," ","i","n"," ","j","a","n","u","a","r","y">>, <<"s","a","l","e","s"," ","2","0","2","5">>, <<"s","h","o","w"," ","i","n","v","o","i","c","e","s">>}

\* a unit without a prefix and without a number, alone or inside a word
BareUnitQuestions ==
    {<<"s","a","l","e","s"," ","b","y"," ","m","o","n","t","h">>, <<"m","o","n","t","h","l","y"," ","r","e","p","o","r","t">>, <<"b","i","r","t","h","d","a","y"," ","l","i","s","t">>, <<"w","e","e","k","d","a","y"," ","s","a","l","e","s">>, <<"d","a","y">>}

\* the letters of a month name inside a longer word
InsideWordQuestions ==
    {<<"s","a","l","e","s"," ","k","u","m","a","r">>, <<"i","n","v","o","i","c","e","s"," ","o","f"," ","o","m","a","r">>, <<"s","h","o","w"," ","d","i","s","m","a","y">>, <<"m","a","r","c","h","i","n","g"," ","b","a","n","d">>, <<"d","e","c","o","r"," ","i","t","e","m","s">>}

CompleteWeekQuestions ==
    {<<"1"," ","c","o","m","p","l","e","t","e"," ","w","e","e","k","s">>, <<"2"," ","c","o","m","p","l","e","t","e"," ","w","e","e","k","s">>, <<"3"," ","c","o","m","p","l","e","t","e"," ","w","e","e","k","s">>, <<"c","o","m","p","l","e","t","e"," ","1"," ","w","e","e","k","s">>}

DateQuestions ==
    RangeQuestions \cup RelativeQuestions \cup OtherQuestions \cup BareUnitQuestions
    \cup InsideWordQuestions \cup CompleteWeekQuestions

InitDate ==
    /\ cache = EmptyMap
    /\ cacheFile = NoFile
    /\ vanna_ai = "VannaAI"
    /\ model_init_error = "None"
    /\ last = Idle
    /\ calls = [write |-> NoCall, read |-> NoCall]
    /\ execIn = [sql |-> <<>>, limit |-> DefaultLimit]
    /\ execOut = [called |-> FALSE, avail |-> 0, res |-> NoResult]
    /\ store = NoStore
    /\ inflight = <<>>
    /\ route = NoRoute
    /\ ledger = NoLedger
    /\ dl = NoDl
    /\ dateq \in {[question |-> q, now |-> now, year |-> year, done |-> FALSE,
                   filter |-> <<>>] :
                     q \in DateQuestions, now \in Clocks, year \in Years}
    /\ dateq.year \in LocalYears(dateq.now)

\* self.get_date_filter(question, column)
GetDateFilterCall ==
    /\ ~dateq.done
    /\ dateq' = [dateq EXCEPT !.done = TRUE,
                              !.filter = get_date_filter(dateq.question, dateq.year)]
    /\ UNCHANGED <<cache, cacheFile, vanna_ai, model_init_error, last, calls, execIn,
                   execOut, store, inflight, route, ledger, dl>>

NextDate == GetDateFilterCall

SpecDate == InitDate /\ [][NextDate]_vars

\* the dates of the rows a condition is tried on: from well over a year before
\* the clock to some weeks after it
Rows(now) == (now.day - 430)..(now.day + 40)

\* months counted from year 0
MonthIndex(day) == 12 * YearOf(day) + MonthOf(day)
\* the first day of the month with that index
FirstDayOfMonth(index) == Ordinal(index \div 12 - (IF index % 12 = 0 THEN 1 ELSE 0),
                                  (IF index % 12 = 0 THEN 12 ELSE index % 12), 1)

\* 'from A to B' questions whose two dates are written with their year, and
\* the dates that are meant
RangeCases ==
    {[question |-> <<"f","r","o","m"," ","1"," ","j","a","n"," ","2","0","2","4"," ","t","o"," ","1","5"," ","j","a","n"," ","2","0","2","4">>,
      start |-> <<"2","0","2","4","-","0","1","-","0","1">>, end |-> <<"2","0","2","4","-","0","1","-","1","5">>],
     [question |-> <<"s","a","l","e","s"," ","f","r","o","m"," ","1"," ","j","a","n"," ","2","0","2","4"," ","t","o"," ","1","5"," ","j","a","n"," ","2","0","2","4">>,
      start |-> <<"2","0","2","4","-","0","1","-","0","1">>, end |-> <<"2","0","2","4","-","0","1","-","1","5">>],
     [question |-> <<"f","r","o","m"," ","1"," ","j","a","n","u","a","r","y"," ","2","0","2","4"," ","t","o"," ","1","5"," ","j","a","n","u","a","r","y"," ","2","0","2","4">>,
      start |-> <<"2","0","2","4","-","0","1","-","0","1">>, end |-> <<"2","0","2","4","-","0","1","-","1","5">>],
     [question |-> <<"f","r","o","m"," ","0","1","-","0","1","-","2","0","2","4"," ","t","o"," ","1","5","-","0","1","-","2","0","2","4">>,
      start |-> <<"2","0","2","4","-","0","1","-","0","1">>, end |-> <<"2","0","2","4","-","0","1","-","1","5">>],
     [question |-> <<"f","r","o","m"," ","2","0","2","4","-","0","1","-","0","1"," ","t","o"," ","2","0","2","4","-","0","1","-","1","5">>,
      start |-> <<"2","0","2","4","-","0","1","-","0","1">>, end |-> <<"2","0","2","4","-","0","1","-","1","5">>],
     [question |-> <<"f","r","o","m"," ","1","/","1","/","2","0","2","4"," ","t","o"," ","1","5","/","1","/","2","0","2","4">>,
      start |-> <<"2","0","2","4","-","0","1","-","0","1">>, end |-> <<"2","0","2","4","-","0","1","-","1","5">>]}

\* C17: for 'from 1 jan 2024 to 15 jan 2024', and for every 'from A to B'
\* whose dates are written with a year, get_date_filter returns
\* DATE(col) BETWEEN DATE('2024-01-01') AND DATE('2024-01-15'), the two dates
\* that are written, whatever the clock says.
C17_RangeWithYearYieldsBetween ==
    dateq.done =>
        \A c \in RangeCases :
            dateq.question = c.question =>
                dateq.filter = <<Between(OnCol("date", <<>>), DateLit(c.start), DateLit(c.end))>>

\* 'from 1 jan 2024 to 15 jan 2024' came back as a condition on the month alone
C17_Witness ==
    /\ dateq.done
    /\ dateq.question = <<"f","r","o","m"," ","1"," ","j","a","n"," ","2","0","2","4"," ","t","o"," ","1","5"," ","j","a","n"," ","2","0","2","4">>
    /\ dateq.filter = <<Cmp(OnCol("strftime", <<"%","m">>), "=", Text(<<"0","1">>))>>

\* C18: at every clock the condition for 'last month' selects exactly the
\* rows dated in the calendar month before the current month of UTC+5:30,
\* also on the 29th, 30th and 31st of a month.
C18_LastMonthIsPreviousCalendarMonth ==
    dateq.done /\ dateq.question = <<"l","a","s","t"," ","m","o","n","t","h">> =>
        \A row \in Rows(dateq.now) :
            Satisfies(dateq.filter, dateq.now, row)
                <=> MonthIndex(row) = MonthIndex(IstOf(dateq.now).day) - 1

\* 'last month', asked late in a month, selected a row of the current month
C18_Witness ==
    /\ dateq.done
    /\ dateq.question = <<"l","a","s","t"," ","m","o","n","t","h">>
    /\ DayOf(IstOf(dateq.now).day) >= 29
    /\ \E row \in Rows(dateq.now) :
          /\ Satisfies(dateq.filter, dateq.now, row)
          /\ MonthIndex(row) = MonthIndex(IstOf(dateq.now).day)

\* the questions 'N complete months'
CompleteCases ==
    {[question |-> <<"1"," ","c","o","m","p","l","e","t","e"," ","m","o","n","t","h">>, n |-> 1],
     [question |-> <<"2"," ","c","o","m","p","l","e","t","e"," ","m","o","n","t","h","s">>, n |-> 2],
     [question |-> <<"3"," ","c","o","m","p","l","e","t","e"," ","m","o","n","t","h","s">>, n |-> 3]}

\* C19: at every clock the condition for 'N complete months' selects exactly
\* the dates from the first day of the month N months before the current
\* month up to, and not including, the first day of the current month, the
\* current month being the one of UTC+5:30.
C19_CompleteMonthsAreWholeMonths ==
    dateq.done =>
        \A c \in CompleteCases :
            dateq.question = c.question =>
                \A row \in Rows(dateq.now) :
                    Satisfies(dateq.filter, dateq.now, row)
                        <=> /\ FirstDayOfMonth(MonthIndex(IstOf(dateq.now).day) - c.n) <= row
                            /\ row < FirstDayOfMonth(MonthIndex(IstOf(dateq.now).day))

\* '2 complete months' came back as the condition for the current month
C19_Witness ==
    /\ dateq.done
    /\ dateq.question = <<"2"," ","c","o","m","p","l","e","t","e"," ","m","o","n","t","h","s">>
    /\ dateq.filter = <<Cmp(OnCol("strftime", <<"%","Y","-","%","m">>), "=", OnNow("strftime", <<"%","Y","-","%","m">>, Ist))>>

\* a comparison col >= ... with nothing that closes the range
Rolling(filter) == Len(filter) = 1 /\ filter[1].op = ">="

\* C20: 'today' selects the rows of the current date of UTC+5:30, 'yesterday'
\* those of the date before, 'this year' those of the current year and 'last
\* year' those of the year before; 'this year' and 'last year' do not get the
\* same condition, and none of the four gets a rolling 'col >= now minus N'.
C20_FixedPhrasesAreExactPeriods ==
    dateq.done /\ dateq.question \in {<<"t","o","d","a","y">>, <<"y","e","s","t","e","r","d","a","y">>, <<"t","h","i","s"," ","y","e","a","r">>, <<"l","a","s","t"," ","y","e","a","r">>} =>
        /\ ~Rolling(dateq.filter)
        /\ dateq.question = <<"t","h","i","s"," ","y","e","a","r">> =>
              dateq.filter # get_date_filter(<<"l","a","s","t"," ","y","e","a","r">>, dateq.year)
        /\ \A row \in Rows(dateq.now) :
              Satisfies(dateq.filter, dateq.now, row) <=>
                  CASE dateq.question = <<"t","o","d","a","y">> -> row = IstOf(dateq.now).day
                    [] dateq.question = <<"y","e","s","t","e","r","d","a","y">> -> row = IstOf(dateq.now).day - 1
                    [] dateq.question = <<"t","h","i","s"," ","y","e","a","r">> ->
                          YearOf(row) = YearOf(IstOf(dateq.now).day)
                    [] dateq.question = <<"l","a","s","t"," ","y","e","a","r">> ->
                          YearOf(row) = YearOf(IstOf(dateq.now).day) - 1

\* 'today' came back as the rolling range of the last day, the very condition
\* 'yesterday' gets
C20_Witness ==
    /\ dateq.done
    /\ dateq.question = <<"t","o","d","a","y">>
    /\ Rolling(dateq.filter)
    /\ dateq.filter = get_date_filter(<<"y","e","s","t","e","r","d","a","y">>, dateq.year)

\* ---------------------------------------------------------------------------
\* The pending-credit template's statement, run on the tables
\* (generate_sql, the statement returned for 'pending credit' questions)
\* ---------------------------------------------------------------------------

\* the rows of customers, and the rowids of invoices and customer_payments
CustomerIds == 1..2
InvoiceIds == 1..2
PaymentIds == 1..2

NoRow == [absent |-> TRUE]
Null == <<"<NULL>">>

\* invoices(customer_id INTEGER, payment_method TEXT, credit_amount REAL DEFAULT 0):
\* the schema has no CHECK and no FOREIGN KEY on these columns
InvoiceRows ==
    {[absent |-> FALSE, customer_id |-> c, credit_amount |-> a, payment_method |-> m] :
        c \in CustomerIds, a \in {0, 2}, m \in {"Credit", "Cash"}}

\* customer_payments(customer_id INTEGER NOT NULL, invoice_id INTEGER NOT NULL,
\* amount REAL NOT NULL, note TEXT); amounts are whole numbers, which REAL holds
\* and adds exactly
PaymentNotes == {Null, <<"I","n","i","t","i","a","l"," ","p","a","y","m","e","n","t"," ","a","t"," ","i","n","v","o","i","c","e"," ","c","r","e","a","t","i","o","n">>, <<"i","n","i","t","i","a","l"," ","p","a","y","m","e","n","t"," ","a","t"," ","s","a","l","e">>}
PaymentRows ==
    {[absent |-> FALSE, customer_id |-> c, invoice_id |-> i, amount |-> a, note |-> n] :
        c \in CustomerIds, i \in InvoiceIds, a \in {-1, 1, 2}, n \in PaymentNotes}

\* SUM(column) over a set of rowids, NULL over no rows
RECURSIVE SumRows(_, _, _)
SumRows(table, ids, column) ==
    IF ids = {} THEN 0
    ELSE LET i == CHOOSE x \in ids : TRUE
         IN table[i][column] + SumRows(table, ids \ {i}, column)

\* an aggregate's value: <<>> for NULL, <<n>> for the number n
SqlSum(table, ids, column) == IF ids = {} THEN <<>> ELSE <<SumRows(table, ids, column)>>

Coalesce(value, default) == IF value = <<>> THEN default ELSE value[1]

\* note LIKE '%...%': LIKE compares ASCII letters without regard to case
SqlLike(text, inner) == Contains(Lower(text), Lower(inner))

\* credit_amount > 0 OR payment_method = 'Credit'
IsCreditInvoice(inv) == inv.credit_amount > 0 \/ inv.payment_method = "Credit"

\* SELECT SUM(credit_amount) FROM invoices WHERE customer_id = c.id AND (...)
CreditGiven(t, c) ==
    SqlSum(t.invoices,
           {i \in InvoiceIds : /\ ~t.invoices[i].absent
                               /\ t.invoices[i].customer_id = c
                               /\ IsCreditInvoice(t.invoices[i])},
           "credit_amount")

\* SELECT SUM(cp.amount) FROM customer_payments cp JOIN invoices inv
\* ON cp.invoice_id = inv.id WHERE cp.customer_id = c.id AND (...) AND (...)
CreditRepaid(t, c) ==
    SqlSum(t.payments,
           {p \in PaymentIds :
               /\ ~t.payments[p].absent
               /\ ~t.invoices[t.payments[p].invoice_id].absent
               /\ t.payments[p].customer_id = c
               /\ IsCreditInvoice(t.invoices[t.payments[p].invoice_id])
               /\ \/ t.payments[p].note = Null
                  \/ ~SqlLike(t.payments[p].note, <<"I","n","i","t","i","a","l"," ","p","a","y","m","e","n","t">>)},
           "amount")

\* the "PENDING CREDIT" column and the WHERE clause of the statement
PendingCreditColumn(t, c) == Coalesce(CreditGiven(t, c), 0) - Coalesce(CreditRepaid(t, c), 0)

PendingCreditRows(t) == {c \in CustomerIds : PendingCreditColumn(t, c) > 0}

InitLedger ==
    /\ cache = EmptyMap
    /\ cacheFile = NoFile
    /\ vanna_ai = "VannaAI"
    /\ model_init_error = "None"
    /\ last = Idle
    /\ calls = [write |-> NoCall, read |-> NoCall]
    /\ execIn = [sql |-> <<>>, limit |-> DefaultLimit]
    /\ execOut = [called |-> FALSE, avail |-> 0, res |-> NoResult]
    /\ store = NoStore
    /\ inflight = <<>>
    /\ route = NoRoute
    /\ dateq = NoDate
    /\ dl = NoDl
    /\ ledger \in {[invoices |-> inv, payments |-> pay, done |-> FALSE, returned |-> {}] :
                     inv \in [InvoiceIds -> InvoiceRows \cup {NoRow}],
                     pay \in [PaymentIds -> PaymentRows \cup {NoRow}]}

\* the statement generate_sql returns for 'pending credit', executed
PendingCreditQuery ==
    /\ ~ledger.done
    /\ RuleOf(<<"p","e","n","d","i","n","g"," ","c","r","e","d","i","t">>) = "pending_credit"
    /\ ledger' = [ledger EXCEPT !.done = TRUE, !.returned = PendingCreditRows(ledger)]
    /\ UNCHANGED <<cache, cacheFile, vanna_ai, model_init_error, last, calls, execIn,
                   execOut, store, inflight, route, dateq, dl>>

NextLedger == PendingCreditQuery

SpecLedger == InitLedger /\ [][NextLedger]_vars

\* a customer's pending credit: the credit on the customer's credit invoices
\* less the customer's payments against those invoices, initial payments aside
IsInitialPayment(p) == p.note # Null /\ SqlLike(p.note, <<"I","n","i","t","i","a","l"," ","p","a","y","m","e","n","t">>)

OwnCreditInvoices(t, c) ==
    {i \in InvoiceIds : /\ ~t.invoices[i].absent
                        /\ t.invoices[i].customer_id = c
                        /\ IsCreditInvoice(t.invoices[i])}

PendingCredit(t, c) ==
    SumRows(t.invoices, OwnCreditInvoices(t, c), "credit_amount")
    - SumRows(t.payments,
              {p \in PaymentIds : /\ ~t.payments[p].absent
                                  /\ t.payments[p].customer_id = c
                                  /\ t.payments[p].invoice_id \in OwnCreditInvoices(t, c)
                                  /\ ~IsInitialPayment(t.payments[p])},
              "amount")

\* C21: whatever the invoices and customer_payments tables hold, every customer
\* the pending-credit template returns has a pending credit above zero
C21_OnlyPositivePendingCredit ==
    ledger.done => \A c \in ledger.returned : PendingCredit(ledger, c) > 0

\* a customer without any invoice is returned: a payment booked to that customer
\* against another customer's credit invoice carries a negative amount
C21_Witness ==
    /\ ledger.done
    /\ \E c \in ledger.returned :
          /\ OwnCreditInvoices(ledger, c) = {}
          /\ PendingCredit(ledger, c) = 0

\* ---------------------------------------------------------------------------
\* The revenue template of generate_sql and the cache, over a moving clock
\* ---------------------------------------------------------------------------

\* every customer rule ahead of the revenue rule needs 'customer' in
\* question_lower, or question_lower to start with 'name '
CustomerRulesPassed(ql) == ~Contains(ql, <<"c","u","s","t","o","m","e","r">>) /\ ~StartsWith(ql, <<"n","a","m","e"," ">>)

\* 'revenue' in question_lower or 'sales' in question_lower or 'income' in question_lower
IsRevenueQuery(ql) ==
    Contains(ql, <<"r","e","v","e","n","u","e">>) \/ Contains(ql, <<"s","a","l","e","s">>) \/ Contains(ql, <<"i","n","c","o","m","e">>)

\* a statement of the revenue rule: its fixed text and, after WHERE, the
\* condition of get_date_filter (<<>>: no WHERE)
RevenueStatement(filter) == <<"SELECT SUM(total_amount) FROM invoices", "WHERE", filter>>

\* the revenue rule of generate_sql for a question that reaches it; None when
\* the rule passes the question on; year is datetime.now().year
RevenueSql(question, year) ==
    IF get_date_filter(question, year) # <<>>
    THEN RevenueStatement(get_date_filter(question, year))
    ELSE IF Contains(QuestionLower(question), <<"t","o","t","a","l">>)
         THEN RevenueStatement(<<>>)
         ELSE None

RevenueQuestions ==
    {<<"r","e","v","e","n","u","e"," ","f","r","o","m"," ","1","s","t"," ","j","a","n"," ","t","o"," ","1","5","t","h"," ","j","a","n">>, <<"r","e","v","e","n","u","e"," ","f","r","o","m"," ","1"," ","j","a","n"," ","2","0","2","4"," ","t","o"," ","1","5"," ","j","a","n"," ","2","0","2","4">>,
     <<"r","e","v","e","n","u","e"," ","l","a","s","t"," ","m","o","n","t","h">>, <<"s","a","l","e","s"," ","2"," ","c","o","m","p","l","e","t","e"," ","m","o","n","t","h","s">>, <<"t","o","t","a","l"," ","r","e","v","e","n","u","e">>, <<"i","n","c","o","m","e"," ","i","n"," ","m","a","r","c","h">>}

\* the clock does not run backwards
Later(a, b) == a.day < b.day \/ (a.day = b.day /\ a.min < b.min)

InitRevenue ==
    /\ cache = EmptyMap
    /\ cacheFile = NoFile
    /\ vanna_ai = "VannaAI"
    /\ model_init_error = "None"
    /\ last = Idle
    /\ calls = [write |-> NoCall, read |-> NoCall]
    /\ execIn = [sql |-> <<>>, limit |-> DefaultLimit]
    /\ execOut = [called |-> FALSE, avail |-> 0, res |-> NoResult]
    /\ store = NoStore
    /\ inflight = <<>>
    /\ route = NoRoute
    /\ ledger = NoLedger
    /\ dl = NoDl
    /\ dateq \in {[question |-> q, now |-> now, year |-> year, done |-> FALSE,
                   filter |-> <<>>] :
                     q \in RevenueQuestions, now \in Clocks, year \in Years}
    /\ dateq.year \in LocalYears(dateq.now)
    /\ RuleOf(dateq.question) = "templates"
    /\ CustomerRulesPassed(QuestionLower(dateq.question))
    /\ IsRevenueQuery(QuestionLower(dateq.question))

\* POST /query with the question: the cache lookup, on a miss generate_sql, the
\* execution (executed: it did not raise) and the cache write
RevenueQuery ==
    \E executed \in BOOLEAN :
    LET cached_sql == CacheGet(cache, dateq.question)
        sql == IF Truthy(cached_sql) THEN cached_sql
               ELSE RevenueSql(dateq.question, dateq.year)
    IN  /\ sql # None
        /\ route' = [question |-> dateq.question, done |-> TRUE,
                     rule |-> IF Truthy(cached_sql) THEN "cache" ELSE "revenue",
                     sql |-> sql]
        /\ cache' = IF executed /\ ~Truthy(cached_sql)
                    THEN CacheSet(cache, dateq.question, sql)
                    ELSE cache
        /\ dateq' = [dateq EXCEPT !.done = TRUE]
        /\ UNCHANGED <<cacheFile, vanna_ai, model_init_error, last, calls, execIn,
                       execOut, store, inflight, ledger, dl>>

\* time passes between two requests
ClockAdvances ==
    /\ \E now \in Clocks, year \in Years :
          /\ Later(dateq.now, now)
          /\ year \in LocalYears(now)
          /\ dateq' = [dateq EXCEPT !.now = now, !.year = year]
    /\ UNCHANGED <<cache, cacheFile, vanna_ai, model_init_error, last, calls, execIn,
                   execOut, store, inflight, route, ledger, dl>>

NextRevenue == RevenueQuery \/ ClockAdvances

SpecRevenue == InitRevenue /\ [][NextRevenue]_vars

\* C22: the statement the cache holds for a question that a rule template
\* answered is, at every later time, the statement generate_sql returns for
\* that question at that time
C22_CachedEqualsFreshAtAnyLaterTime ==
    Truthy(CacheGet(cache, dateq.question)) =>
        CacheGet(cache, dateq.question) = RevenueSql(dateq.question, dateq.year)

\* a later year has come and the cache serves a range that names the year in
\* which the statement was generated
C22_Witness ==
    /\ route.done
    /\ route.rule = "cache"
    /\ route.question = <<"r","e","v","e","n","u","e"," ","f","r","o","m"," ","1","s","t"," ","j","a","n"," ","t","o"," ","1","5","t","h"," ","j","a","n">>
    /\ route.sql # RevenueSql(dateq.question, dateq.year)

\* C23: for a question whose unit word has neither a prefix nor a number,
\* get_date_filter returns what its later rules return, the relative-range
\* rule not having matched
C23_BareUnitSkipsRelativeRule ==
    dateq.done /\ dateq.question \in BareUnitQuestions \cup {<<"t","o","d","a","y">>, <<"y","e","s","t","e","r","d","a","y">>} =>
        dateq.filter = AfterRange(Lower(dateq.question), NoRelative)

\* 'monthly report' has come back with the condition of the current month
C23_Witness ==
    /\ dateq.done
    /\ dateq.question = <<"m","o","n","t","h","l","y"," ","r","e","p","o","r","t">>
    /\ RelativeMatch(Lower(dateq.question)).amount_str = <<>>
    /\ dateq.filter = RelativeFilter(<<>>, <<"m","o","n","t","h">>, FALSE, FALSE)
    /\ dateq.filter # <<>>

\* a condition that compares the month of the column with a month number
IsMonthEquality(filter) ==
    \E k \in DOMAIN months : filter = <<Cmp(OnCol("strftime", <<"%","m">>), "=", Text(months[k][2]))>>

\* C24: a question that holds the letters of a month name only inside a longer
\* word gets no condition on the month
C24_MonthOnlyAsWholeWord ==
    dateq.done /\ dateq.question \in InsideWordQuestions => ~IsMonthEquality(dateq.filter)

\* 'sales kumar' has come back with the condition of March
C24_Witness ==
    /\ dateq.done
    /\ dateq.question = <<"s","a","l","e","s"," ","k","u","m","a","r">>
    /\ dateq.filter = <<Cmp(OnCol("strftime", <<"%","m">>), "=", Text(<<"0","3">>))>>

\* the Sunday that starts the week of the day
WeekStart(day) == day - WeekdayOf(day)

CompleteWeekCases ==
    {[question |-> <<"1"," ","c","o","m","p","l","e","t","e"," ","w","e","e","k","s">>, n |-> 1], [question |-> <<"2"," ","c","o","m","p","l","e","t","e"," ","w","e","e","k","s">>, n |-> 2],
     [question |-> <<"3"," ","c","o","m","p","l","e","t","e"," ","w","e","e","k","s">>, n |-> 3], [question |-> <<"c","o","m","p","l","e","t","e"," ","1"," ","w","e","e","k","s">>, n |-> 1],
     [question |-> <<"c","o","m","p","l","e","t","e"," ","2"," ","w","e","e","k","s">>, n |-> 2]}

\* C25: 'N complete weeks' selects the rows from the Sunday N weeks before the
\* current week's Sunday up to, and without, the current week's Sunday,
\* whatever the weekday of now
C25_CompleteWeeksAreWholeWeeks ==
    dateq.done =>
        \A c \in CompleteWeekCases :
            dateq.question = c.question =>
                \A row \in Rows(dateq.now) :
                    Satisfies(dateq.filter, dateq.now, row)
                        <=> /\ WeekStart(IstOf(dateq.now).day) - 7 * c.n <= row
                            /\ row < WeekStart(IstOf(dateq.now).day)

\* on a Sunday 'complete 1 weeks' leaves out the days of the week that ended
\* the day before
C25_Witness ==
    /\ dateq.done
    /\ dateq.question = <<"c","o","m","p","l","e","t","e"," ","1"," ","w","e","e","k","s">>
    /\ WeekdayOf(IstOf(dateq.now).day) = 0
    /\ ~Satisfies(dateq.filter, dateq.now, IstOf(dateq.now).day - 1)
    /\ Satisfies(dateq.filter, dateq.now, IstOf(dateq.now).day - 8)

\* ---------------------------------------------------------------------------
\* The product rule of generate_sql and the rules a question passes before it
\* ---------------------------------------------------------------------------

\* the guard of the supplier rules, which return for every question they take
IsSupplierQuery(ql) ==
    \/ StartsWith(ql, <<"s","u","p","p","l","i","e","r"," ">>) \/ StartsWith(ql, <<"s","u","p","p","l","i","e","r","s"," ">>)
    \/ \E k \in {<<"s","u","p","p","l","i","e","r"," ","n","a","m","e">>, <<"s","u","p","p","l","i","e","r"," ","d","e","t","a","i","l","s">>, <<"s","u","p","p","l","i","e","r"," ","i","n","f","o">>, <<"w","h","o"," ","i","s"," ","s","u","p","p","l","i","e","r">>} :
          Contains(ql, k)

\* the guard of the product rule
IsProductRule(ql) ==
    \/ StartsWith(ql, <<"p","r","o","d","u","c","t"," ">>) \/ StartsWith(ql, <<"p","r","o","d","u","c","t","s"," ">>)
    \/ \E k \in {<<"p","r","o","d","u","c","t"," ","n","a","m","e">>, <<"p","r","o","d","u","c","t"," ","d","e","t","a","i","l","s">>, <<"p","r","o","d","u","c","t"," ","i","n","f","o">>, <<"p","r","o","d","u","c","t"," ","s","t","o","c","k">>,
                <<"f","i","n","d"," ","p","r","o","d","u","c","t">>, <<"s","e","a","r","c","h"," ","p","r","o","d","u","c","t">>} : Contains(ql, k)
    \/ \E k \in {<<" ","s","t","o","c","k">>, <<" ","s","a","l","e","s">>, <<" ","d","a","t","a">>, <<" ","l","i","s","t">>, <<" ","i","n","f","o">>, <<" ","d","e","t","a","i","l","s">>, <<" ","p","r","i","c","e">>,
                <<" ","p","r","o","f","i","t">>, <<" ","r","e","v","e","n","u","e">>} : Contains(ql, k)

\* is_product_query
is_product_query(ql) ==
    ~\E kw \in {<<"c","u","s","t","o","m","e","r">>, <<"s","u","p","p","l","i","e","r">>, <<"i","n","v","o","i","c","e">>, <<"p","a","y","m","e","n","t"," ","m","e","t","h","o","d">>, <<"w","h","o"," ","i","s">>} :
        Contains(ql, kw)

\* Pattern 1, the alternatives before the name, in their order
NamePrefixes ==
    <<<<"p","r","o","d","u","c","t"," ","n","a","m","e">>, <<"p","r","o","d","u","c","t"," ","d","e","t","a","i","l","s"," ","f","o","r">>, <<"p","r","o","d","u","c","t"," ","i","n","f","o"," ","f","o","r">>, <<"p","r","o","d","u","c","t"," ","s","t","o","c","k"," ","f","o","r">>,
      <<"f","i","n","d"," ","p","r","o","d","u","c","t">>, <<"s","e","a","r","c","h"," ","p","r","o","d","u","c","t">>, <<"p","r","o","d","u","c","t","s">>, <<"p","r","o","d","u","c","t">>>>

\* Pattern 1, the optional words after the name
NameSuffixes ==
    {<<"c","u","r","r","e","n","t"," ","s","t","o","c","k">>, <<"s","t","o","c","k"," ","p","u","r","c","h","a","s","e","d">>, <<"t","o","t","a","l"," ","s","a","l","e","s">>, <<"s","a","l","e","s"," ","c","o","u","n","t">>, <<"a","m","o","u","n","t"," ","s","o","l","d">>,
     <<"s","e","l","l","i","n","g"," ","p","r","i","c","e">>, <<"d","e","t","a","i","l","s">>, <<"i","n","f","o">>, <<"s","a","l","e","s">>, <<"p","u","r","c","h","a","s","e">>, <<"p","u","r","c","h","a","s","e","s">>, <<"h","i","s","t","o","r","y">>,
     <<"s","u","p","p","l","i","e","r">>, <<"c","u","s","t","o","m","e","r">>, <<"c","u","s","t","o","m","e","r","s">>, <<"p","r","o","f","i","t">>, <<"r","e","v","e","n","u","e">>, <<"d","a","t","a">>, <<"l","i","s","t">>}

\* question_lower holds single spaces only: prefix k of Pattern 1 matches at i
\* when a space and one more character follow it
PrefixAt(ql, k, i) ==
    /\ OccursAt(ql, NamePrefixes[k], i)
    /\ i + Len(NamePrefixes[k]) < Len(ql)
    /\ ql[i + Len(NamePrefixes[k])] = " "

\* group 1 of Pattern 1 from position first: the shortest text that leaves
\* nothing, or a space and one of the optional words, up to the end
NameGroup(ql, first) ==
    LET cut == {Len(ql) - Len(w) - 1 : w \in {w \in NameSuffixes :
                    /\ EndsWith(ql, <<" ">> \o w)
                    /\ Len(ql) - Len(w) - 1 >= first}}
    IN  IF cut = {} THEN SubSeq(ql, first, Len(ql))
        ELSE SubSeq(ql, first, SetMin(cut))

\* name_match.group(1), <<>> when Pattern 1 does not match
NameMatch(ql) ==
    LET starts == {i \in 1..Len(ql) : \E k \in DOMAIN NamePrefixes : PrefixAt(ql, k, i)}
    IN  IF starts = {} THEN <<>>
        ELSE LET i == SetMin(starts)
                 k == SetMin({k \in DOMAIN NamePrefixes : PrefixAt(ql, k, i)})
             IN  NameGroup(ql, i + Len(NamePrefixes[k]) + 1)

\* Pattern 2, the words that end the name
AltWords ==
    {<<"s","t","o","c","k">>, <<"s","a","l","e","s">>, <<"d","a","t","a">>, <<"l","i","s","t">>, <<"i","n","f","o">>, <<"d","e","t","a","i","l","s">>, <<"p","r","i","c","e">>, <<"p","r","o","f","i","t">>,
     <<"r","e","v","e","n","u","e">>, <<"c","u","r","r","e","n","t"," ","s","t","o","c","k">>, <<"s","t","o","c","k"," ","p","u","r","c","h","a","s","e","d">>, <<"t","o","t","a","l"," ","s","a","l","e","s">>, <<"s","a","l","e","s"," ","c","o","u","n","t">>,
     <<"a","m","o","u","n","t"," ","s","o","l","d">>, <<"s","e","l","l","i","n","g"," ","p","r","i","c","e">>, <<"p","u","r","c","h","a","s","e"," ","h","i","s","t","o","r","y">>, <<"s","a","l","e","s"," ","h","i","s","t","o","r","y">>, <<"s","u","p","p","l","i","e","r">>,
     <<"c","u","s","t","o","m","e","r">>, <<"p","a","y","m","e","n","t">>}

\* alt_match.group(1), <<>> when Pattern 2 does not match
AltMatch(ql) ==
    LET ends == {j \in 2..Len(ql) : ql[j] = " " /\ \E w \in AltWords : OccursAt(ql, w, j + 1)}
    IN  IF ends = {} THEN <<>> ELSE SubSeq(ql, 1, SetMin(ends) - 1)

\* the words removed from the two ends of the name, in the order of the loop
NameNoise ==
    <<<<"c","u","r","r","e","n","t">>, <<"s","t","o","c","k">>, <<"p","u","r","c","h","a","s","e","d">>, <<"t","o","t","a","l">>, <<"s","a","l","e","s">>, <<"c","o","u","n","t">>, <<"a","m","o","u","n","t">>, <<"s","o","l","d">>,
      <<"s","e","l","l","i","n","g">>, <<"p","r","i","c","e">>, <<"d","e","t","a","i","l","s">>, <<"i","n","f","o">>, <<"d","a","t","a">>, <<"l","i","s","t">>, <<"t","h","e">>, <<"f","o","r">>, <<"o","f">>>>

\* re.sub(rf'\s+{kw}$', '', name) and then re.sub(rf'^{kw}\s+', '', name)
StripWord(name, kw) ==
    LET a == IF EndsWith(name, <<" ">> \o kw)
             THEN SubSeq(name, 1, SkipSpacesBack(name, Len(name) - Len(kw)))
             ELSE name
    IN  IF StartsWith(a, kw \o <<" ">>) THEN SubSeq(a, SkipSpaces(a, Len(kw) + 1), Len(a)) ELSE a

RECURSIVE StripWords(_, _)
StripWords(name, k) ==
    IF k > Len(NameNoise) THEN name ELSE StripWords(StripWord(name, NameNoise[k]), k + 1)

\* product_name after the loop and strip(); <<>> when no pattern matched
ProductName(ql) ==
    LET raw == IF NameMatch(ql) # <<>> THEN Strip(NameMatch(ql)) ELSE Strip(AltMatch(ql))
    IN  IF raw = <<>> THEN <<>> ELSE Strip(StripWords(raw, 1))

\* the chain of sub-queries, in its order
ProductSubTemplate(ql) ==
    IF \/ Contains(ql, <<"c","u","r","r","e","n","t"," ","s","t","o","c","k">>)
       \/ /\ Contains(ql, <<"s","t","o","c","k">>) /\ ~Contains(ql, <<"p","u","r","c","h","a","s","e","d">>)
          /\ ~Contains(ql, <<"h","i","s","t","o","r","y">>)
    THEN "product_current_stock"
    ELSE IF \/ Contains(ql, <<"s","t","o","c","k"," ","p","u","r","c","h","a","s","e","d">>) \/ Contains(ql, <<"t","o","t","a","l"," ","p","u","r","c","h","a","s","e","d">>)
            \/ Contains(ql, <<"w","a","s"," ","p","u","r","c","h","a","s","e","d">>)
    THEN "product_total_purchased"
    ELSE IF Contains(ql, <<"s","a","l","e","s"," ","c","o","u","n","t">>) \/ Contains(ql, <<"h","o","w"," ","m","a","n","y"," ","t","i","m","e","s">>)
    THEN "product_sales_count"
    ELSE IF \/ Contains(ql, <<"a","m","o","u","n","t"," ","s","o","l","d">>) \/ Contains(ql, <<"t","o","t","a","l"," ","s","o","l","d">>)
            \/ Contains(ql, <<"r","e","v","e","n","u","e">>)
    THEN "product_amount_sold"
    ELSE IF Contains(ql, <<"p","r","i","c","e">>)
    THEN "product_price"
    ELSE IF \/ Contains(ql, <<"p","u","r","c","h","a","s","e"," ","h","i","s","t","o","r","y">>) \/ Contains(ql, <<"p","u","r","c","h","a","s","e","s">>)
            \/ Contains(ql, <<"p","u","r","c","h","a","s","e"," ","o","r","d","e","r","s">>) \/ Contains(ql, <<"w","h","e","n"," ","d","i","d"," ","w","e"," ","b","u","y">>)
    THEN "product_purchase_history"
    ELSE IF \/ Contains(ql, <<"s","a","l","e","s"," ","h","i","s","t","o","r","y">>) \/ Contains(ql, <<"s","a","l","e","s"," ","l","i","s","t">>)
            \/ Contains(ql, <<"i","n","v","o","i","c","e","s">>)
    THEN "product_sales_history"
    ELSE IF Contains(ql, <<"s","u","p","p","l","i","e","r">>) \/ Contains(ql, <<"w","h","o"," ","s","u","p","p","l","i","e","s">>)
    THEN "product_supplier"
    ELSE IF \/ Contains(ql, <<"c","u","s","t","o","m","e","r">>) \/ Contains(ql, <<"w","h","o"," ","b","o","u","g","h","t">>)
            \/ Contains(ql, <<"w","h","o"," ","p","u","r","c","h","a","s","e","d">>)
    THEN "product_customers"
    ELSE IF Contains(ql, <<"p","a","y","m","e","n","t">>) \/ Contains(ql, <<"p","a","i","d"," ","f","o","r">>)
    THEN "product_payments"
    ELSE IF Contains(ql, <<"p","r","o","f","i","t">>) \/ Contains(ql, <<"m","a","r","g","i","n">>)
    THEN "product_profit"
    ELSE IF /\ Contains(ql, <<"s","a","l","e","s">>)
            /\ \/ Contains(ql, <<"t","h","i","s"," ","m","o","n","t","h">>) \/ Contains(ql, <<"t","o","d","a","y">>)
               \/ Contains(ql, <<"t","h","i","s"," ","w","e","e","k">>)
    THEN "product_date_sales"
    ELSE "product_default"

ProductSubTemplates ==
    {"product_current_stock", "product_total_purchased", "product_sales_count",
     "product_amount_sold", "product_price", "product_purchase_history",
     "product_sales_history", "product_supplier", "product_customers", "product_payments",
     "product_profit", "product_date_sales", "product_default"}

\* the product rule: the sub-query that answers, or the call of the model
\* after it when the rule passes the question on
ProductRule(ql) ==
    IF IsProductRule(ql) /\ is_product_query(ql) /\ Len(ProductName(ql)) > 1
    THEN ProductSubTemplate(ql)
    ELSE "default_llm"

\* the rule that answers a question without 'customer' in it: the rules up to the
\* pending-credit rule, the revenue rule, the supplier rules, the call of the
\* model for top-sold questions, the product rule.  With 'customer' in
\* question_lower the customer rules may answer, and is_product_query keeps the
\* product rule from answering: "customer_or_later".
ProductRouteOf(question, ql, year) ==
    IF RuleOf(question) # "templates" THEN RuleOf(question)
    ELSE IF Contains(ql, <<"c","u","s","t","o","m","e","r">>) THEN "customer_or_later"
    ELSE IF IsRevenueQuery(ql) /\ RevenueSql(question, year) # None THEN "revenue"
    ELSE IF IsSupplierQuery(ql) THEN "supplier"
    ELSE IF IsTopSoldQuery(ql) THEN "top_sold_llm"
    ELSE ProductRule(ql)

\* the questions put to generate_sql one after the other: for every sub-query
\* of the product rule the questions that hold its words
ProductQuestions ==
    <<<<"p","r","o","d","u","c","t"," ","k","i","t","k","a","t"," ","c","u","r","r","e","n","t"," ","s","t","o","c","k">>, <<"k","i","t","k","a","t"," ","s","t","o","c","k">>, <<"p","r","o","d","u","c","t"," ","k","i","t","k","a","t"," ","t","o","t","a","l"," ","p","u","r","c","h","a","s","e","d">>,
      <<"p","r","o","d","u","c","t"," ","k","i","t","k","a","t"," ","s","a","l","e","s"," ","c","o","u","n","t">>, <<"p","r","o","d","u","c","t"," ","k","i","t","k","a","t"," ","a","m","o","u","n","t"," ","s","o","l","d">>, <<"p","r","o","d","u","c","t"," ","k","i","t","k","a","t"," ","p","r","i","c","e">>,
      <<"p","r","o","d","u","c","t"," ","k","i","t","k","a","t"," ","p","u","r","c","h","a","s","e"," ","h","i","s","t","o","r","y">>, <<"p","r","o","d","u","c","t"," ","k","i","t","k","a","t"," ","s","a","l","e","s"," ","h","i","s","t","o","r","y">>,
      <<"p","r","o","d","u","c","t"," ","k","i","t","k","a","t"," ","w","h","o"," ","s","u","p","p","l","i","e","s">>, <<"p","r","o","d","u","c","t"," ","k","i","t","k","a","t"," ","s","u","p","p","l","i","e","r">>,
      <<"p","r","o","d","u","c","t"," ","k","i","t","k","a","t"," ","c","u","s","t","o","m","e","r","s">>, <<"p","r","o","d","u","c","t"," ","k","i","t","k","a","t"," ","c","u","s","t","o","m","e","r">>, <<"k","i","t","k","a","t"," ","w","h","o"," ","b","o","u","g","h","t">>,
      <<"p","r","o","d","u","c","t"," ","k","i","t","k","a","t"," ","w","h","o"," ","b","o","u","g","h","t">>, <<"p","r","o","d","u","c","t"," ","k","i","t","k","a","t"," ","w","h","o"," ","p","u","r","c","h","a","s","e","d">>,
      <<"p","r","o","d","u","c","t"," ","k","i","t","k","a","t"," ","s","o","l","d"," ","t","o"," ","c","u","s","t","o","m","e","r">>, <<"p","r","o","d","u","c","t"," ","k","i","t","k","a","t"," ","p","a","y","m","e","n","t">>, <<"p","r","o","d","u","c","t"," ","k","i","t","k","a","t"," ","p","r","o","f","i","t">>,
      <<"p","r","o","d","u","c","t"," ","k","i","t","k","a","t"," ","s","a","l","e","s"," ","t","h","i","s"," ","m","o","n","t","h">>, <<"k","i","t","k","a","t"," ","s","a","l","e","s"," ","t","o","d","a","y">>,
      <<"p","r","o","d","u","c","t"," ","k","i","t","k","a","t"," ","s","a","l","e","s"," ","t","h","i","s"," ","w","e","e","k">>, <<"p","r","o","d","u","c","t"," ","k","i","t","k","a","t"," ","s","a","l","e","s">>, <<"p","r","o","d","u","c","t"," ","k","i","t","k","a","t">>>>

InitProduct ==
    /\ cache = EmptyMap
    /\ cacheFile = NoFile
    /\ vanna_ai = "VannaAI"
    /\ model_init_error = "None"
    /\ last = Idle
    /\ calls = [write |-> NoCall, read |-> NoCall]
    /\ execIn = [sql |-> <<>>, limit |-> DefaultLimit]
    /\ execOut = [called |-> FALSE, avail |-> 0, res |-> NoResult]
    /\ store = NoStore
    /\ inflight = <<>>
    /\ ledger = NoLedger
    /\ dl = NoDl
    /\ route = [question |-> <<>>, done |-> FALSE, rule |-> "none", sql |-> None,
                asked |-> 0, returned |-> {}]
    /\ dateq \in {[NoDate EXCEPT !.now = now, !.year = year] : now \in Clocks, year \in Years}
    /\ dateq.year \in LocalYears(dateq.now)

\* vanna_ai.generate_sql(question) for the next question
AskProduct ==
    /\ route.asked < Len(ProductQuestions)
    /\ LET q == ProductQuestions[route.asked + 1]
           rule == ProductRouteOf(q, QuestionLower(q), dateq.year)
       IN  route' = [route EXCEPT !.question = q, !.done = TRUE, !.rule = rule,
                                  !.asked = route.asked + 1,
                                  !.returned = route.returned \cup {rule}]
    /\ UNCHANGED <<cache, cacheFile, vanna_ai, model_init_error, last, calls, execIn,
                   execOut, store, inflight, dateq, ledger, dl>>

NextProduct == AskProduct

SpecProduct == InitProduct /\ [][NextProduct]_vars

\* C26: every sub-query of the product rule has answered one of the questions
\* once all of them have been put
C26_EverySubTemplateReturned ==
    route.asked = Len(ProductQuestions) => ProductSubTemplates \subseteq route.returned

\* all questions have been put; eleven sub-queries have answered, and the two
\* whose words an earlier rule takes have not
C26_Witness ==
    /\ route.asked = Len(ProductQuestions)
    /\ ProductSubTemplates \ route.returned = {"product_customers", "product_date_sales"}
    /\ {"purchase_llm", "customer_or_later", "revenue"} \subseteq route.returned

\* ---------------------------------------------------------------------------
\* The cache entry of a question over a sequence of requests
\* ---------------------------------------------------------------------------

C28_ReadyIffLastInitializeSucceeded ==
    last.op = "initialize" =>
        /\ (vanna_ai # "None") = last.init.success
        /\ last.init.ready = last.init.success
        /\ last.init.error # "None" => ~last.init.ready

\* the model was loaded, the model file went away, and /initialize answers
\* success false, ready true and the error of the missing file
C28_Witness ==
    /\ last.op = "initialize"
    /\ ~last.init.success
    /\ last.init.ready
    /\ last.init.error = "Model file not found or empty"
    /\ vanna_ai = "VannaAI"

\* ---------------------------------------------------------------------------
\* scripts/download_model.py: the download thread, statement by statement, next
\* to the handlers of /cancel-download, /download-model and /force-redownload
\* ---------------------------------------------------------------------------

\* dl.progress: the status in PROGRESS_FILE, "absent" when there is no file and
\* "empty" between open(PROGRESS_FILE, 'w') and the end of its with block.
\* dl.model: the model file: "absent", "partial" or "full".
\* dl.d[d]: download thread d; dl.c: the call of cancel_download;
\* dl.hit: the downloads that were inside the chunk loop when cancel_download
\* returned.
Downloads == 1..2
ChunkIds == 1..2

IdleThread ==
    [pc |-> "idle", left |-> 0, status |-> "none", ret |-> "none", neterr |-> FALSE,
     afterCancel |-> FALSE]

InProgress(t) == t.pc \notin {"idle", "done"}

\* lines 78-102: the thread is between two chunks, at the check, at the write or
\* at the update of the progress
InLoop(t) ==
    \/ t.pc \in {"chunk", "exists", "read", "write", "unlink"}
    \/ t.pc \in {"up_open", "up_dump"} /\ t.status = "downloading"

\* the handlers run on the event loop, one at a time; downloads are started one
\* after the other
HandlerMayRun == dl.c.pc \in {"idle", "done"}
MayStart(d) ==
    /\ HandlerMayRun
    /\ dl.d[d].pc = "idle"
    /\ \A e \in Downloads : e < d => dl.d[e].pc = "done"

\* afterCancel: an earlier download has been cancelled, it has returned None
Started(d) ==
    [IdleThread EXCEPT !.pc = "start",
                       !.afterCancel = (\E e \in Downloads : dl.d[e].ret = "None")]

dlFrame == <<cache, cacheFile, vanna_ai, model_init_error, last, calls, execIn, execOut,
             store, inflight, route, dateq, ledger>>

InitDownload ==
    /\ cache = EmptyMap
    /\ cacheFile = NoFile
    /\ vanna_ai = "None"
    /\ model_init_error = "Model file not found or empty"
    /\ last = Idle
    /\ calls = [write |-> NoCall, read |-> NoCall]
    /\ execIn = [sql |-> <<>>, limit |-> DefaultLimit]
    /\ execOut = [called |-> FALSE, avail |-> 0, res |-> NoResult]
    /\ store = NoStore
    /\ inflight = <<>>
    /\ route = NoRoute
    /\ dateq = NoDate
    /\ ledger = NoLedger
    /\ dl = [progress |-> "absent", model |-> "absent",
             d |-> [d \in Downloads |-> IdleThread],
             c |-> [pc |-> "idle", completed |-> FALSE], hit |-> {}]

\* POST /download-model: threading.Thread(target=download_qwen_model).start()
DownloadModel(d) ==
    /\ MayStart(d)
    /\ dl' = [dl EXCEPT !.d[d] = Started(d)]
    /\ UNCHANGED dlFrame

\* force_delete_model()
ForceDeleteModel(s) ==
    IF s.model # "absent" THEN [s EXCEPT !.model = "absent", !.progress = "absent"] ELSE s

\* POST /force-redownload: force_delete_model(), then the thread is started
ForceRedownload(d) ==
    /\ MayStart(d)
    /\ dl' = [ForceDeleteModel(dl) EXCEPT !.d[d] = Started(d)]
    /\ UNCHANGED dlFrame

\* download_qwen_model, lines 46-55: a file below 1 GB is removed, a full one
\* ends the call with update_progress(..., "complete")
DlStart(d) ==
    /\ dl.d[d].pc = "start"
    /\ dl' = IF dl.model = "full"
             THEN [dl EXCEPT !.d[d].pc = "up_open", !.d[d].status = "complete"]
             ELSE [dl EXCEPT !.model = "absent", !.d[d].pc = "request"]
    /\ UNCHANGED dlFrame

\* requests.head, requests.get, raise_for_status: they return or raise
DlRequest(d) ==
    /\ dl.d[d].pc = "request"
    /\ \E ok \in BOOLEAN :
          dl' = IF ok THEN [dl EXCEPT !.d[d].pc = "open"]
                ELSE [dl EXCEPT !.d[d].pc = "up_open", !.d[d].status = "error",
                                !.d[d].neterr = TRUE]
    /\ UNCHANGED dlFrame

\* open(output_path, 'wb')
DlOpen(d) ==
    /\ dl.d[d].pc = "open"
    /\ dl' = [dl EXCEPT !.model = "partial", !.d[d].pc = "chunk",
                        !.d[d].left = Cardinality(ChunkIds)]
    /\ UNCHANGED dlFrame

\* for chunk in response.iter_content(...): the next chunk, or the end of the
\* loop and of the with block, which closes the complete file
DlNextChunk(d) ==
    /\ dl.d[d].pc = "chunk"
    /\ dl' = IF dl.d[d].left = 0
             THEN [dl EXCEPT !.model = "full", !.d[d].pc = "up_open",
                             !.d[d].status = "complete"]
             ELSE [dl EXCEPT !.d[d].pc = "exists"]
    /\ UNCHANGED dlFrame

\* if PROGRESS_FILE.exists():
DlExists(d) ==
    /\ dl.d[d].pc = "exists"
    /\ dl' = [dl EXCEPT !.d[d].pc = IF dl.progress = "absent" THEN "write" ELSE "read"]
    /\ UNCHANGED dlFrame

\* progress = json.load(pf); if progress.get("status") == "cancelled":
\* json.load raises on an empty file and open on a missing one, into the except
DlRead(d) ==
    /\ dl.d[d].pc = "read"
    /\ dl' = IF dl.progress \in {"empty", "absent"}
             THEN [dl EXCEPT !.d[d].pc = "up_open", !.d[d].status = "error"]
             ELSE IF dl.progress = "cancelled"
             THEN [dl EXCEPT !.d[d].pc = "unlink"]
             ELSE [dl EXCEPT !.d[d].pc = "write"]
    /\ UNCHANGED dlFrame

\* f.close(); output_path.unlink(missing_ok=True); return None
DlUnlink(d) ==
    /\ dl.d[d].pc = "unlink"
    /\ dl' = [dl EXCEPT !.model = "absent", !.d[d].pc = "done", !.d[d].ret = "None"]
    /\ UNCHANGED dlFrame

\* f.write(chunk), and update_progress(..., "downloading") when half a second
\* has passed since the last one
DlWrite(d) ==
    /\ dl.d[d].pc = "write"
    /\ \E due \in BOOLEAN :
          dl' = IF due
                THEN [dl EXCEPT !.d[d].left = @ - 1, !.d[d].pc = "up_open",
                                !.d[d].status = "downloading"]
                ELSE [dl EXCEPT !.d[d].left = @ - 1, !.d[d].pc = "chunk"]
    /\ UNCHANGED dlFrame

\* update_progress: open(PROGRESS_FILE, 'w') empties the file
UpdateProgressOpen(d) ==
    /\ dl.d[d].pc = "up_open"
    /\ dl' = [dl EXCEPT !.progress = "empty", !.d[d].pc = "up_dump"]
    /\ UNCHANGED dlFrame

\* update_progress: json.dump and the end of the with block; then the loop goes
\* on, the call returns the path, or the exception is raised again
UpdateProgressDump(d) ==
    /\ dl.d[d].pc = "up_dump"
    /\ dl' = [dl EXCEPT !.progress = dl.d[d].status,
                        !.d[d].pc = IF dl.d[d].status = "downloading" THEN "chunk" ELSE "done",
                        !.d[d].ret = IF dl.d[d].status = "downloading" THEN "none"
                                     ELSE IF dl.d[d].status = "complete" THEN "path"
                                     ELSE "raised"]
    /\ UNCHANGED dlFrame

\* POST /cancel-download, cancel_download: if PROGRESS_FILE.exists()
CancelBegins ==
    /\ dl.c.pc = "idle"
    /\ dl' = [dl EXCEPT !.c.pc = IF dl.progress = "absent" THEN "open" ELSE "read"]
    /\ UNCHANGED dlFrame

\* progress = json.load(f): raises on an empty file, and the handler answers 500
CancelRead ==
    /\ dl.c.pc = "read"
    /\ dl' = [dl EXCEPT !.c.pc = IF dl.progress = "empty" THEN "done" ELSE "open"]
    /\ UNCHANGED dlFrame

\* open(PROGRESS_FILE, 'w')
CancelOpen ==
    /\ dl.c.pc = "open"
    /\ dl' = [dl EXCEPT !.progress = "empty", !.c.pc = "dump"]
    /\ UNCHANGED dlFrame

\* json.dump(progress, f) with the status "cancelled"; cancel_download returns
CancelDump ==
    /\ dl.c.pc = "dump"
    /\ dl' = [dl EXCEPT !.progress = "cancelled", !.c.pc = "done", !.c.completed = TRUE,
                        !.hit = {d \in Downloads : InLoop(dl.d[d])}]
    /\ UNCHANGED dlFrame

DownloadThread(d) ==
    \/ DlStart(d) \/ DlRequest(d) \/ DlOpen(d) \/ DlNextChunk(d) \/ DlExists(d)
    \/ DlRead(d) \/ DlUnlink(d) \/ DlWrite(d) \/ UpdateProgressOpen(d)
    \/ UpdateProgressDump(d)

CancelHandler == CancelRead \/ CancelOpen \/ CancelDump

NextDownload ==
    \/ \E d \in Downloads : DownloadModel(d)
    \/ \E d \in Downloads : ForceRedownload(d)
    \/ \E d \in Downloads : DlStart(d)
    \/ \E d \in Downloads : DlRequest(d)
    \/ \E d \in Downloads : DlOpen(d)
    \/ \E d \in Downloads : DlNextChunk(d)
    \/ \E d \in Downloads : DlExists(d)
    \/ \E d \in Downloads : DlRead(d)
    \/ \E d \in Downloads : DlUnlink(d)
    \/ \E d \in Downloads : DlWrite(d)
    \/ \E d \in Downloads : UpdateProgressOpen(d)
    \/ \E d \in Downloads : UpdateProgressDump(d)
    \/ CancelBegins
    \/ CancelRead
    \/ CancelOpen
    \/ CancelDump

SpecDownload == InitDownload /\ [][NextDownload]_vars

\* a started thread is scheduled until download_qwen_model returns, and a
\* handler that has begun runs to its end
SpecDownloadFair ==
    /\ SpecDownload
    /\ \A d \in Downloads : WF_vars(DownloadThread(d))
    /\ WF_vars(CancelHandler)

\* C29: when cancel_download has returned while a download was inside its chunk
\* loop, the status stays "cancelled" for as long as that download runs, and the
\* download ends by returning None with the partial file removed
C29_CancelStopsRunningDownload ==
    \A d \in dl.hit :
        /\ InProgress(dl.d[d]) => dl.progress = "cancelled"
        /\ dl.d[d].pc = "done" => dl.d[d].ret = "None" /\ dl.model = "absent"

\* cancel_download returned while download 1 was inside its chunk loop, and
\* download 1 has finished with the status "complete" and the whole model file
C29_Witness ==
    /\ 1 \in dl.hit
    /\ dl.d[1].pc = "done"
    /\ dl.d[1].ret = "path"
    /\ dl.progress = "complete"
    /\ dl.model = "full"

\* C30: a download started after an earlier download has been cancelled, with no
\* further cancel and no network error, ends with the status "complete" and the
\* model file in place
C30_LaterDownloadCompletes ==
    \A d \in Downloads :
        (dl.d[d].pc = "start" /\ dl.d[d].afterCancel)
            ~> \/ dl.d[d].neterr
               \/ /\ dl.d[d].pc = "done"
                  /\ dl.d[d].ret = "path"
                  /\ dl.progress = "complete"
                  /\ dl.model = "full"

\* download 1 was cancelled; download 2, started afterwards, has found the
\* status "cancelled" of that cancellation and has returned None
C30_Witness ==
    /\ dl.d[1].pc = "done"
    /\ dl.d[1].ret = "None"
    /\ dl.d[2].pc = "done"
    /\ dl.d[2].afterCancel
    /\ ~dl.d[2].neterr
    /\ dl.d[2].ret = "None"
    /\ dl.progress = "cancelled"
    /\ dl.model = "absent"

====
